-------------------------- MODULE LifecycleFinalizers --------------------------
(* The finalizers of a guarded subroutine cover what it may have created, a   *)
(* subroutine that asked to be run again is, and Reconcile implements the     *)
(* contract of ResourceContract.                                              *)
EXTENDS LifecycleSafety

\* An object is gone once it is in deletion and nothing holds it.
Gone == ~obj.exists => obj.deleting /\ obj.fins = {}

\* Whoever saw the subroutines' finalizers on an object not in deletion can rely
\* on them still being there: only a pass that read the deletion takes them off.
HeldInPass ==
  /\ (pc \in {"prepare", "subroutine"} /\ ~inst.deleting /\ ~ReadOnly) =>
        OwnFinalizers \subseteq obj.fins
  /\ (pc = "finalizers" /\ ~inst.deleting /\ OwnFinalizers \subseteq inst.fins) =>
        OwnFinalizers \subseteq obj.fins
HeldInCache ==
  (Cached /\ ~cache.deleting /\ OwnFinalizers \subseteq cache.fins) =>
     OwnFinalizers \subseteq obj.fins

\* A pass that knows of the deletion read it, the cache had it before, and no
\* finalizer is added any more.
ToldPass ==
  /\ (InLoop /\ inst.deleting) => orig.deleting /\ obj.fins \subseteq inst.fins
  /\ (Cached /\ orig.deleting) => cache.deleting
ToldCache == (Cached /\ cache.deleting) => obj.fins \subseteq cache.fins
Unfinalizing == pc = "unfinalize" => inst.deleting /\ ~ReadOnly /\ ~res[Current]

ResCovered == \A s \in Guarded : res[s] => Finalizers[s] \subseteq obj.fins

CoverParts == HeldInPass /\ HeldInCache /\ ToldPass /\ ToldCache /\ Unfinalizing
              /\ ResCovered
CoverOK == flipped \/ CoverParts

-----------------------------------------------------------------------------
LEMMA CallGone ==
  ASSUME TypeOK, Gone, NEW o, NEW ok, ok => obj.exists, o.exists = obj.exists,
         CallSucceeds(ok, o) \/ CallFails(ok, o), o \in Objects
  PROVE  Gone'
BY DEF CallSucceeds, CallFails, Write, Reaped, Gone, apiVars, Objects

LEMMA EditGone ==
  ASSUME Gone, NEW o \in Objects, Edit(o), o.exists
  PROVE  Gone'
BY DEF Edit, Reaped, Gone, Objects

LEMMA GoneStep ==
  ASSUME TypeOK, TypeOK', GenOK, GenOK', Gone, [Next]_vars
  PROVE  Gone'
<1>1. CASE UNCHANGED obj
  BY <1>1 DEF Gone
<1>2. CASE AddFinalizers /\ obj' # obj
  <2> DEFINE new == [obj EXCEPT !.fins = inst.fins \cup OwnFinalizers]
             ok  == FinalizersAccepted(inst.fins \cup OwnFinalizers)
  <2>1. new \in Objects /\ new.exists = obj.exists
    BY DEF TypeOK, Objects
  <2>2. ok => obj.exists
    BY DEF FinalizersAccepted
  <2>3. CallSucceeds(ok, new) \/ CallFails(ok, new)
    BY <1>2 DEF AddFinalizers, apiVars
  <2> QED
    BY <2>1, <2>2, <2>3, CallGone
<1>3. CASE RemoveFinalizers
  <2> DEFINE list == FinalizersLeft(Current)
             new  == [obj EXCEPT !.fins = list]
             ok   == FinalizersAccepted(list)
  <2>1. new \in Objects /\ new.exists = obj.exists
    BY DEF FinalizersLeft, TypeOK, Objects
  <2>2. ok => obj.exists
    BY DEF FinalizersAccepted
  <2>3. CallSucceeds(ok, new) \/ CallFails(ok, new)
    BY <1>3 DEF RemoveFinalizers
  <2> QED
    BY <2>1, <2>2, <2>3, CallGone
<1>4. CASE (UpdateStatusAfterError \/ UpdateStatus) /\ obj' # obj
  <2>1. StatusWritten \in Objects /\ StatusWritten.exists = obj.exists
    BY PatchTypes DEF StatusWritten, TypeOK, Objects
  <2>2. CallSucceeds(obj.exists /\ fresh, StatusWritten)
        \/ CallFails(obj.exists /\ fresh, StatusWritten)
    BY <1>4 DEF UpdateStatusAfterError, UpdateStatus, apiVars
  <2> QED
    BY <2>1, <2>2, CallGone
<1>5. CASE (RemoveTerminator \/ RemoveInitializer) /\ obj' # obj
  <2> DEFINE t == [obj EXCEPT !.terms = inst.terms \ {Terminator}]
             i == [obj EXCEPT !.inits = inst.inits \ {Initializer}]
  <2>1. /\ t \in Objects /\ t.exists = obj.exists
        /\ i \in Objects /\ i.exists = obj.exists
    BY PatchTypes DEF TypeOK, Objects
  <2>2. \/ CallSucceeds(obj.exists, t) \/ CallFails(obj.exists, t)
        \/ CallSucceeds(obj.exists, i) \/ CallFails(obj.exists, i)
    BY <1>5 DEF RemoveTerminator, RemoveInitializer, RemoveClaim, apiVars
  <2> HIDE DEF t, i
  <2>3. CASE CallSucceeds(obj.exists, t) \/ CallFails(obj.exists, t)
    BY <2>1, <2>3, CallGone
  <2>4. CASE CallSucceeds(obj.exists, i) \/ CallFails(obj.exists, i)
    BY <2>1, <2>4, CallGone
  <2> QED
    BY <2>2, <2>3, <2>4
<1>6. CASE RemoveRefreshLabel
  <2> DEFINE new == [obj EXCEPT !.refresh = FALSE]
  <2>1. new \in Objects /\ new.exists = obj.exists
    BY PatchTypes DEF TypeOK, Objects
  <2>2. CallSucceeds(obj.exists, new) \/ CallFails(obj.exists, new)
    BY <1>6 DEF RemoveRefreshLabel
  <2> HIDE DEF new
  <2> QED
    BY <2>1, <2>2, CallGone
<1>7. CASE Others
  <2>1. CASE ChangeSpec
    BY <2>1 DEF ChangeSpec, Edit, Reaped, Gone, TypeOK, Objects
  <2>2. CASE RequestRefresh
    BY <2>2 DEF RequestRefresh, Edit, Reaped, Gone, TypeOK, Objects
  <2>3. CASE Delete
    BY <2>3 DEF Delete, Edit, Reaped, Gone, TypeOK, Objects
  <2>4. CASE HoldForeign
    BY <2>4 DEF HoldForeign, Edit, Reaped, Gone, TypeOK, Objects
  <2>5. CASE ReleaseForeign
    BY <2>5 DEF ReleaseForeign, Edit, Reaped, Gone, TypeOK, Objects
  <2>6. CASE ReleaseClaim
    <3> USE DEF TypeOK, Objects
    <3>1. CASE \E c \in obj.inits : Edit([obj EXCEPT !.inits = @ \ {c}])
      <4>1. PICK c \in obj.inits : Edit([obj EXCEPT !.inits = @ \ {c}])
        BY <3>1
      <4>2. [obj EXCEPT !.inits = @ \ {c}] \in Objects
        OBVIOUS
      <4> QED
        BY <4>1, <4>2, EditGone DEF Edit
    <3>2. CASE \E c \in obj.terms : Edit([obj EXCEPT !.terms = @ \ {c}])
      <4>1. PICK c \in obj.terms : Edit([obj EXCEPT !.terms = @ \ {c}])
        BY <3>2
      <4>2. [obj EXCEPT !.terms = @ \ {c}] \in Objects
        OBVIOUS
      <4> QED
        BY <4>1, <4>2, EditGone DEF Edit
    <3> QED
      BY <2>6, <3>1, <3>2 DEF ReleaseClaim
  <2> QED
    BY <1>7, <2>1, <2>2, <2>3, <2>4, <2>5, <2>6 DEF Others
<1>8. CASE \/ Begin \/ SkipReconcile \/ PrepareContext \/ RunSubroutine \/ Conclude
           \/ HandleResult \/ FireTimer \/ Notify \/ Restart \/ Tick \/ UNCHANGED vars
  BY <1>8, <1>1 DEF Begin, SkipReconcile, PrepareContext, RunSubroutine, Conclude,
     HandleResult, FireTimer, Notify, Restart, Tick, vars, apiVars
<1> QED
  BY <1>1, <1>2, <1>3, <1>4, <1>5, <1>6, <1>7, <1>8 DEF Next, Worker

-----------------------------------------------------------------------------
LEMMA GuardedFacts ==
  /\ \A s \in Guarded : /\ s \in Subs /\ s \notin Terminators /\ ~ReadOnly
                        /\ Finalizers[s] # {} /\ Finalizers[s] \subseteq OwnFinalizers
  /\ \A s \in Guarded, t \in Subs : t # s => Finalizers[s] \cap Finalizers[t] = {}
BY ConstantFacts DEF Guarded

\* Steps that touch no finalizer, no cached copy and no resource, and either
\* leave the loop or leave the pass as it is.
LEMMA CoverKept ==
  ASSUME CoverOK, obj'.fins = obj.fins, cache' = cache,
         UNCHANGED <<res, flipped>>,
         \/ UNCHANGED <<pc, inst, orig, pos>>
         \/ pc' \notin {"finalizers", "prepare", "subroutine", "unfinalize"} /\ orig' = orig
  PROVE  CoverOK'
BY DEF CoverOK, CoverParts, HeldInPass, HeldInCache, ToldPass, ToldCache, Unfinalizing,
       ResCovered, InLoop, Current

\* A client call on an object with the finalizers it has.
LEMMA CallKeepsFins ==
  ASSUME NEW o \in Objects, NEW ok, o.fins = obj.fins,
         CallSucceeds(ok, o) \/ CallFails(ok, o)
  PROVE  obj'.fins = obj.fins /\ cache' = cache
BY DEF CallSucceeds, CallFails, Write, Reaped, Objects, apiVars

LEMMA CoverAfterLoop ==
  ASSUME TypeOK, CoverOK,
         \/ SkipReconcile \/ UpdateStatusAfterError \/ Conclude \/ RemoveTerminator
         \/ RemoveInitializer \/ UpdateStatus \/ RemoveRefreshLabel
  PROVE  CoverOK'
<1>1. /\ StatusWritten \in Objects /\ StatusWritten.fins = obj.fins
      /\ \A c : [obj EXCEPT !.terms = inst.terms \ {c}].fins = obj.fins
      /\ \A c : [obj EXCEPT !.inits = inst.inits \ {c}].fins = obj.fins
      /\ [obj EXCEPT !.refresh = FALSE].fins = obj.fins
  BY PatchTypes DEF StatusWritten, TypeOK, Objects
<1>2. CASE SkipReconcile \/ Conclude
  BY <1>2, CoverKept DEF SkipReconcile, Conclude, Return, apiVars, passVars, ghosts
<1>3. CASE UpdateStatusAfterError \/ UpdateStatus
  <2>1. obj'.fins = obj.fins /\ cache' = cache
    BY <1>1, <1>3, CallKeepsFins DEF UpdateStatusAfterError, UpdateStatus, apiVars
  <2>2. CASE UpdateStatusAfterError
    BY <2>1, <2>2, CoverKept DEF UpdateStatusAfterError, Return, passVars, ghosts
  <2>3. CASE UpdateStatus
    <3>1. pc' \in {"label", "return"}
      BY <2>3 DEF UpdateStatus, AfterStatus, Finish, Return
    <3> QED
      BY <2>1, <2>3, <3>1, CoverKept DEF UpdateStatus, ghosts
  <2> QED
    BY <1>3, <2>2, <2>3
<1>4. CASE RemoveTerminator \/ RemoveInitializer
  <2>1. obj'.fins = obj.fins /\ cache' = cache
    BY <1>1, <1>4, CallKeepsFins, PatchTypes
       DEF RemoveTerminator, RemoveInitializer, RemoveClaim, apiVars
  <2>2. pc' \in {"status", "return"} /\ UNCHANGED <<orig, res, flipped>>
    BY <1>4 DEF RemoveTerminator, RemoveInitializer, RemoveClaim, Return, ghosts
  <2> QED
    BY <2>1, <2>2, CoverKept
<1>5. CASE RemoveRefreshLabel
  <2>1. obj'.fins = obj.fins /\ cache' = cache
    BY <1>1, <1>5, CallKeepsFins, PatchTypes DEF RemoveRefreshLabel
  <2> QED
    BY <1>5, <2>1, CoverKept DEF RemoveRefreshLabel, Return, Finish, passVars, ghosts
<1> QED
  BY <1>2, <1>3, <1>4, <1>5

\* The pass is reset, or the cache brought up to date.
LEMMA CoverQueue ==
  ASSUME TypeOK, DeletionOK, CoverOK,
         HandleResult \/ FireTimer \/ Notify \/ Restart \/ Tick \/ UNCHANGED vars
  PROVE  CoverOK'
<1> USE DEF apiVars, passVars, ghosts
<1>1. CASE FireTimer \/ Tick \/ UNCHANGED vars
  BY <1>1, CoverKept DEF FireTimer, Tick, vars
<1>2. CASE HandleResult
  BY <1>2 DEF HandleResult, CoverOK, CoverParts, HeldInPass, HeldInCache, ToldPass,
     ToldCache, Unfinalizing, ResCovered, InLoop, NewObject
<1>3. CASE Restart
  BY <1>3 DEF Restart, CoverOK, CoverParts, HeldInPass, HeldInCache, ToldPass,
     ToldCache, Unfinalizing, ResCovered, InLoop, NewObject
<1>4. CASE Notify
  BY <1>4 DEF Notify, DeletionOK, CoverOK, CoverParts, HeldInPass, HeldInCache, ToldPass,
     ToldCache, Unfinalizing, ResCovered, InLoop, Current
<1> QED
  BY <1>1, <1>2, <1>3, <1>4

\* Other actors touch foreign finalizers only, and add none in deletion.
LEMMA CoverOthers ==
  ASSUME TypeOK, DeletionOK, CoverOK, Others
  PROVE  CoverOK'
<1>1. /\ OwnFinalizers \subseteq obj.fins => OwnFinalizers \subseteq obj'.fins
      /\ obj.deleting => obj'.fins \subseteq obj.fins
      /\ \A s \in Subs : Finalizers[s] \subseteq obj.fins => Finalizers[s] \subseteq obj'.fins
  <2> USE DEF Edit, Reaped, TypeOK, Objects
  <2>1. \A s \in Subs : Finalizers[s] \cap Foreign = {}
    BY ConstantFacts, LifecycleAssumption
  <2>2. CASE ChangeSpec \/ RequestRefresh \/ Delete \/ ReleaseClaim
    <3>1. obj'.fins = obj.fins
      BY <2>2 DEF ChangeSpec, RequestRefresh, Delete, ReleaseClaim
    <3> QED
      BY <3>1
  <2>3. CASE HoldForeign
    BY <2>3 DEF HoldForeign
  <2>4. CASE ReleaseForeign
    BY <2>1, <2>4, LifecycleAssumption DEF ReleaseForeign
  <2> QED
    BY <2>2, <2>3, <2>4 DEF Others
<1>2. UNCHANGED <<cache, pc, inst, orig, pos, res, flipped>>
  BY OthersKeepDeletion DEF ghosts
<1> QED
  BY <1>1, <1>2, GuardedFacts
     DEF DeletionOK, CoverOK, CoverParts, HeldInPass, HeldInCache, ToldPass, ToldCache,
         Unfinalizing, ResCovered, InLoop, Current

LEMMA CoverBegin ==
  ASSUME TypeOK, DeletionOK, CoverOK, Begin \/ PrepareContext
  PROVE  CoverOK'
<1> USE DEF CoverOK, CoverParts, HeldInPass, HeldInCache, ToldPass, ToldCache,
            Unfinalizing, ResCovered, InLoop, apiVars
<1>1. CASE Begin
  <2>1. CASE pc' = "return"
    BY <1>1, <2>1 DEF Begin, passVars
  <2>2. CASE pc' # "return"
    <3>1. /\ inst' = ReadCopy /\ orig' = ReadCopy
          /\ pc' \in {"skip", "finalizers"}
      BY <1>1, <2>2 DEF Begin, Return
    <3> QED
      BY <1>1, <3>1 DEF Begin, ReadCopy
  <2> QED
    BY <2>1, <2>2
<1>2. CASE PrepareContext
  <2>1. pc' \in {"subroutine", "return"} /\ pc = "prepare"
    BY <1>2 DEF PrepareContext, Return
  <2> QED
    BY <1>2, <2>1 DEF PrepareContext
<1> QED
  BY <1>1, <1>2

\* AddFinalizersIfNeeded leaves the object with every finalizer, or has just
\* been told of the deletion.
LEMMA CoverAdd ==
  ASSUME TypeOK, DeletionOK, CoverOK, AddFinalizers
  PROVE  CoverOK'
<1> DEFINE list == inst.fins \cup OwnFinalizers
           new  == [obj EXCEPT !.fins = list]
           ok   == FinalizersAccepted(list)
<1> USE DEF CoverOK, CoverParts, HeldInPass, HeldInCache, ToldPass, ToldCache,
            Unfinalizing, ResCovered, InLoop
<1>1. new.fins = list /\ new.deleting = obj.deleting /\ list \in SUBSET (OwnFinalizers \cup Foreign)
  BY DEF TypeOK, Objects
<1>2. CASE ReadOnly \/ inst.deleting \/ list = inst.fins
  <2>1. /\ pc = "finalizers" /\ pc' = "prepare"
        /\ UNCHANGED <<obj, cache, inst, orig, res, flipped>>
    BY <1>2 DEF AddFinalizers, apiVars, passVars
  <2> QED
    BY <1>2, <2>1
<1>3. CASE ~(ReadOnly \/ inst.deleting \/ list = inst.fins)
  <2>1. \/ obj' = obj
        \/ ok /\ obj' = Reaped(new)
    BY <1>3 DEF AddFinalizers, CallSucceeds, CallFails, Write, apiVars
  <2>2. obj' # obj => /\ obj'.fins = list /\ obj'.deleting = obj.deleting
                      /\ obj.deleting => list \subseteq obj.fins
    BY <1>1, <2>1 DEF Reaped, FinalizersAccepted, TypeOK, Objects
  <2>3. /\ pc = "finalizers" /\ cache' = cache
        /\ UNCHANGED <<orig, res>>
        /\ flipped => flipped'
    BY <1>3 DEF AddFinalizers, CallSucceeds, CallFails, Write, apiVars, passVars
  <2>4. CASE pc' = "return"
    <3>1. ~flipped' => ~flipped
      BY <2>3
    <3>2. /\ (OwnFinalizers \subseteq obj.fins) => OwnFinalizers \subseteq obj'.fins
          /\ \A s \in Subs : Finalizers[s] \subseteq obj.fins => Finalizers[s] \subseteq obj'.fins
          /\ obj.deleting => obj'.fins \subseteq obj.fins
      BY <2>2, ConstantFacts
    <3> QED
      BY <2>3, <2>4, <3>1, <3>2, GuardedFacts DEF DeletionOK
  <2>5. CASE pc' # "return"
    <3>1. /\ pc' = "prepare" /\ inst' = obj' /\ flipped' = (flipped \/ obj'.deleting)
          /\ obj' = Reaped(new) /\ ok
      BY <1>3, <2>5 DEF AddFinalizers, Return, CallSucceeds, Write
    <3>2. obj'.fins = list /\ obj'.deleting = obj.deleting
      BY <1>1, <3>1 DEF Reaped, TypeOK, Objects
    <3>3. CASE obj.deleting
      BY <3>1, <3>2, <3>3
    <3>4. CASE ~obj.deleting
      <4>1. \A s \in Guarded : Finalizers[s] \subseteq obj'.fins
        BY <3>2, GuardedFacts
      <4> QED
        BY <2>3, <3>1, <3>2, <3>4, <4>1 DEF DeletionOK
    <3> QED
      BY <3>3, <3>4 DEF TypeOK, Objects
  <2> QED
    BY <2>4, <2>5
<1> QED
  BY <1>2, <1>3

\* A subroutine creates only while the instance is not in deletion, with the
\* finalizers in place.
LEMMA CoverRun ==
  ASSUME TypeOK, DeletionOK, CoverOK, RunSubroutine
  PROVE  CoverOK'
<1>1. /\ pc = "subroutine" /\ Current \in Subs
      /\ UNCHANGED <<obj, cache, orig, flipped>>
  BY CurrentTypes DEF RunSubroutine, apiVars
<1>2. CASE flipped
  BY <1>1, <1>2 DEF CoverOK
<1>3. CASE ~flipped
  <2> USE DEF CoverOK, CoverParts, HeldInPass, HeldInCache, ToldPass, ToldCache,
              Unfinalizing, ResCovered, InLoop
  <2>1. Branch(Current) \in Creating => ~inst.deleting
    BY DEF Branch, Creating, TypeOK, Objects
  <2>2. ~inst.deleting => \A s \in Guarded : Finalizers[s] \subseteq obj.fins
    BY <1>1, <1>3, GuardedFacts
  <2>3. \A s \in Guarded : s # Current => res'[s] = res[s]
    BY <1>1, GuardedFacts DEF RunSubroutine, Succeed, Finalized, AskForRequeue,
       FailForNow, FailForGood, ResIfOk, ResIfNot, TypeOK
  <2>4. res'[Current] => res[Current] \/ Branch(Current) \in Creating
    BY <1>1 DEF RunSubroutine, Succeed, Finalized, AskForRequeue,
       FailForNow, FailForGood, ResIfOk, ResIfNot, TypeOK
  <2>5. ResCovered'
    BY <1>1, <1>3, <2>1, <2>2, <2>3, <2>4
  <2>6. CASE pc' = "subroutine"
    <3>1. inst' = inst
      BY <2>6 DEF RunSubroutine, Succeed, Finalized, AskForRequeue, FailForNow,
         FailForGood, FailSubroutine
    <3> QED
      BY <1>1, <1>3, <2>5, <2>6, <3>1
  <2>7. CASE pc' = "unfinalize"
    <3>1. /\ Finalized(Current) /\ inst' = inst /\ pos' = pos
      BY <1>1, <2>7 DEF RunSubroutine, Succeed, Finalized, AskForRequeue, FailForNow,
         FailForGood, FailSubroutine, PassSubroutine
    <3>2. inst.deleting /\ ~ReadOnly /\ Branch(Current) = "Finalize"
      BY <3>1 DEF Finalized, Branch
    <3>3. ~res'[Current]
      BY <1>1, <3>1, <3>2 DEF Finalized, ResIfOk, Creating, TypeOK
    <3>4. Current' = Current
      BY <1>1, <3>1 DEF Current
    <3> QED
      BY <1>1, <1>3, <2>5, <2>7, <3>1, <3>2, <3>3, <3>4
  <2>8. CASE pc' \notin {"subroutine", "unfinalize"}
    <3>1. pc' \in {"retryError", "finalError"}
      BY <1>1, <2>8 DEF RunSubroutine, Succeed, Finalized, AskForRequeue, FailForNow,
         FailForGood, FailSubroutine, PassSubroutine
    <3> QED
      BY <1>1, <1>3, <2>5, <3>1
  <2> QED
    BY <2>6, <2>7, <2>8
<1> QED
  BY <1>2, <1>3

\* removeFinalizerIfNeeded takes off what belongs to a subroutine that has just
\* finalized, and nothing of another guarded one.
LEMMA CoverUnfinalize ==
  ASSUME TypeOK, DeletionOK, CoverOK, RemoveFinalizers
  PROVE  CoverOK'
<1> DEFINE list == FinalizersLeft(Current)
           new  == [obj EXCEPT !.fins = list]
           ok   == FinalizersAccepted(list)
<1> USE DEF CoverOK, CoverParts, HeldInPass, HeldInCache, ToldPass, ToldCache,
            Unfinalizing, ResCovered, InLoop
<1>a. pc = "unfinalize" /\ UNCHANGED <<cache, orig, res, flipped>>
  BY DEF RemoveFinalizers, CallSucceeds, CallFails, Write, apiVars
<1>b. Current \in Subs
  BY <1>a, LifecycleAssumption DEF Current, Subs, TypeOK
<1>1. /\ pc = "unfinalize" /\ cache' = cache
      /\ UNCHANGED <<orig, res, flipped>>
      /\ Current \in Subs
  BY <1>a, <1>b
<1>2. CASE flipped
  BY <1>1, <1>2
<1>3. CASE ~flipped
  <2>1. /\ inst.deleting /\ orig.deleting /\ ~ReadOnly /\ ~res[Current] /\ obj.deleting
        /\ obj.fins \subseteq inst.fins
    BY <1>1, <1>3 DEF DeletionOK
  <2>2. \/ obj' = obj
        \/ ok /\ obj' = Reaped(new)
    BY DEF RemoveFinalizers, CallSucceeds, CallFails, Write, apiVars
  <2>3. obj' # obj => obj'.fins = list /\ list \subseteq obj.fins
    BY <2>1, <2>2 DEF Reaped, FinalizersAccepted, TypeOK, Objects
  <2>4. obj'.fins \subseteq obj.fins /\ obj'.deleting
    BY <2>1, <2>3, StepKeepsDeletion DEF Next, Worker
  <2>5. \A s \in Guarded : res[s] => Finalizers[s] \subseteq obj'.fins
    BY <1>1, <1>3, <2>1, <2>3, GuardedFacts DEF FinalizersLeft
  <2>6. CASE pc' = "subroutine"
    <3>1. inst' = obj'
      BY <2>6 DEF RemoveFinalizers, FailSubroutine
    <3> QED
      BY <1>1, <1>3, <2>1, <2>4, <2>5, <2>6, <3>1
  <2>7. CASE pc' # "subroutine"
    <3>1. pc' = "retryError"
      BY <2>7 DEF RemoveFinalizers, FailSubroutine, PassSubroutine
    <3> QED
      BY <1>1, <1>3, <2>1, <2>4, <2>5, <3>1
  <2> QED
    BY <2>6, <2>7
<1> QED
  BY <1>2, <1>3

LEMMA CoverStep ==
  ASSUME TypeOK, DeletionOK, CoverOK, [Next]_vars
  PROVE  CoverOK'
BY CoverBegin, CoverAdd, CoverRun, CoverUnfinalize, CoverAfterLoop, CoverQueue, CoverOthers
   DEF Next, Worker

CoverInv == TypeOK /\ GenOK /\ DeletionOK /\ Gone /\ CoverOK

LEMMA CoverInductive ==
  /\ Init => CoverInv
  /\ CoverInv /\ [Next]_vars => CoverInv'
  /\ CoverInv => CoveredUnlessFlipped
<1>1. Init => CoverInv
  <2> SUFFICES ASSUME Init PROVE CoverInv
    OBVIOUS
  <2>1. /\ pc = "idle" /\ ~orig.deleting /\ ~cache.deleting /\ cache.fins = obj.fins
        /\ \A s \in Subs : ~res[s]
    BY DEF Init, NewObject
  <2>2. HeldInPass /\ HeldInCache /\ ToldPass /\ ToldCache /\ Unfinalizing
    BY <2>1 DEF HeldInPass, HeldInCache, ToldPass, ToldCache, Unfinalizing, InLoop
  <2>3. ResCovered
    BY <2>1, GuardedFacts DEF ResCovered
  <2>4. GenOK /\ DeletionOK /\ Gone
    BY DEF Init, GenOK, DeletionOK, Gone, NewObject
  <2> QED
    BY <2>2, <2>3, <2>4, TypeInit DEF CoverInv, CoverOK, CoverParts
<1>2. CoverInv /\ [Next]_vars => CoverInv'
  BY TypeStep, DeletionStep, GoneStep, CoverStep DEF CoverInv
<1>3. CoverInv => CoveredUnlessFlipped
  BY GuardedFacts DEF CoverInv, CoverOK, CoverParts, ResCovered, Gone,
     CoveredUnlessFlipped, Covered
<1> QED
  BY <1>1, <1>2, <1>3

\* What a guarded subroutine may have created is covered by its finalizers, for
\* any number of subroutines, edits, failed calls and restarts, until a pass is
\* told of the deletion by the patch response of lifecycle.go:445.
THEOREM FinalizersCover == Spec => []CoveredUnlessFlipped
BY CoverInductive, PTL DEF Spec

-----------------------------------------------------------------------------
(* With live reads the patch is never accepted on an object in deletion that  *)
(* the pass did not read as such, so the cover holds without exception.       *)

LiveOK ==
  ~flipped /\ ((pc = "finalizers" /\ ~inst.deleting) =>
                  obj.fins \cap OwnFinalizers \subseteq inst.fins)

LEMMA LiveKept ==
  ASSUME LiveOK, flipped' = flipped,
         \/ pc' # "finalizers"
         \/ UNCHANGED <<pc, inst>> /\ obj'.fins \cap OwnFinalizers \subseteq obj.fins
  PROVE  LiveOK'
BY DEF LiveOK

LEMMA LiveStep ==
  ASSUME ~Cached, TypeOK, LiveOK, [Next]_vars
  PROVE  LiveOK'
<1> USE DEF apiVars, passVars, ghosts, Return
<1>1. CASE Begin
  BY <1>1 DEF Begin, ReadCopy, LiveOK
<1>2. CASE AddFinalizers
  <2> DEFINE list == inst.fins \cup OwnFinalizers
             new  == [obj EXCEPT !.fins = list]
             ok   == FinalizersAccepted(list)
  <2>1. pc' \in {"prepare", "return"}
    BY <1>2 DEF AddFinalizers
  <2>2. CASE flipped' = flipped
    BY <2>1, <2>2, LiveKept
  <2>3. CASE flipped' # flipped
    <3>1. /\ ~inst.deleting /\ list # inst.fins /\ pc = "finalizers"
          /\ ok /\ obj' = Reaped(new) /\ flipped' = (flipped \/ obj'.deleting)
      BY <1>2, <2>3 DEF AddFinalizers, CallSucceeds, Write
    <3>2. obj'.deleting = obj.deleting
      BY <3>1 DEF Reaped, TypeOK, Objects
    <3>3. obj.deleting => list \subseteq obj.fins
      BY <3>1 DEF FinalizersAccepted
    <3>4. obj.fins \cap OwnFinalizers \subseteq inst.fins
      BY <3>1 DEF LiveOK
    <3>5. ~obj.deleting
      BY <3>1, <3>3, <3>4
    <3> QED
      BY <2>1, <3>1, <3>2, <3>5 DEF LiveOK, TypeOK, Objects
  <2> QED
    BY <2>2, <2>3
<1>3. CASE SkipReconcile \/ PrepareContext \/ Conclude \/ UpdateStatusAfterError
           \/ RemoveRefreshLabel
  BY <1>3, LiveKept DEF SkipReconcile, PrepareContext, Conclude, UpdateStatusAfterError,
     RemoveRefreshLabel, Finish
<1>4. CASE RunSubroutine
  <2>1. pc = "subroutine" /\ flipped' = flipped
    BY <1>4 DEF RunSubroutine
  <2>2. pc' \in {pc, "subroutine", "unfinalize", "retryError", "finalError"}
    BY <1>4 DEF RunSubroutine, Succeed, Finalized, AskForRequeue, FailForNow, FailForGood,
       FailSubroutine, PassSubroutine
  <2> QED
    BY <2>1, <2>2, LiveKept
<1>5. CASE RemoveFinalizers
  BY <1>5, LiveKept DEF RemoveFinalizers, PassSubroutine, FailSubroutine
<1>6. CASE RemoveTerminator \/ RemoveInitializer \/ UpdateStatus
  BY <1>6, LiveKept DEF RemoveTerminator, RemoveInitializer, RemoveClaim, UpdateStatus,
     AfterStatus, Finish
<1>7. CASE HandleResult \/ Restart
  BY <1>7, LiveKept DEF HandleResult, Restart
<1>8. CASE FireTimer \/ Notify \/ Tick \/ UNCHANGED vars
  BY <1>8, LiveKept DEF FireTimer, Notify, Tick, vars
<1>9. CASE Others
  <2> USE DEF Edit, Reaped, TypeOK, Objects
  <2>1. CASE ChangeSpec \/ RequestRefresh \/ Delete \/ ReleaseClaim \/ ReleaseForeign
    <3>1. obj'.fins \subseteq obj.fins
      <4>1. CASE ChangeSpec \/ RequestRefresh \/ Delete
        BY <4>1 DEF ChangeSpec, RequestRefresh, Delete
      <4>2. CASE ReleaseClaim
        BY <4>2 DEF ReleaseClaim
      <4>3. CASE ReleaseForeign
        BY <4>3 DEF ReleaseForeign
      <4> QED
        BY <2>1, <4>1, <4>2, <4>3
    <3> QED
      BY <1>9, <3>1, OthersKeepDeletion, LiveKept
  <2>2. CASE HoldForeign
    <3>1. obj'.fins \cap OwnFinalizers \subseteq obj.fins
      <4>1. PICK f \in Foreign : obj'.fins = obj.fins \cup {f}
        BY <2>2 DEF HoldForeign
      <4>2. f \notin OwnFinalizers
        BY LifecycleAssumption
      <4> QED
        BY <4>1, <4>2
    <3> QED
      BY <1>9, <3>1, OthersKeepDeletion, LiveKept
  <2> QED
    BY <1>9, <2>1, <2>2 DEF Others
<1> QED
  BY <1>1, <1>2, <1>3, <1>4, <1>5, <1>6, <1>7, <1>8, <1>9 DEF Next, Worker

\* The same without exception when the controller reads the API server itself.
THEOREM LiveReadsCover == ASSUME ~Cached PROVE Spec => []Covered
<1>1. Init => CoverInv /\ LiveOK
  BY CoverInductive DEF Init, LiveOK
<1>2. CoverInv /\ LiveOK /\ [Next]_vars => CoverInv' /\ LiveOK'
  BY CoverInductive, LiveStep DEF CoverInv
<1>3. CoverInv /\ LiveOK => Covered
  BY CoverInductive DEF LiveOK, CoveredUnlessFlipped
<1> QED
  BY <1>1, <1>2, <1>3, PTL DEF Spec

-----------------------------------------------------------------------------
(* What is owed to a subroutine that asked to be run again.                  *)

\* Without spreading no pass is skipped and none ends at the refresh label, so
\* every way out of a pass with something owed leads to a retry.
OwedOK ==
  /\ ~cache.exists => ~obj.exists
  /\ pc \notin {"skip", "label"}
  /\ (pc \in {"subroutine", "unfinalize"} /\ ~requeue) =>
       \A s \in Subs : Passed(s) => s \notin Waiting
  /\ pc \in {"terminator", "initializer", "status"} => requeue \/ Waiting = {}
  /\ pc = "finalError" => Waiting = {}
  /\ pc = "return" => ret.err \/ ret.after # Never \/ Waiting = {} \/ ~obj.exists
  /\ RequeueHonoured

\* Nobody makes the object anew.
LEMMA NotRemade ==
  ASSUME TypeOK, [Next]_vars, obj'.exists
  PROVE  obj.exists
<1> USE DEF apiVars, CallSucceeds, CallFails, Write, Reaped, TypeOK, Objects
<1>1. CASE Begin \/ SkipReconcile \/ PrepareContext \/ HandleResult \/ FireTimer
           \/ Notify \/ Restart \/ Tick \/ RunSubroutine \/ Conclude
  BY <1>1 DEF Begin, SkipReconcile, PrepareContext, HandleResult, FireTimer,
              Notify, Restart, Tick, RunSubroutine, Conclude
<1>2. CASE AddFinalizers
  BY <1>2 DEF AddFinalizers
<1>3. CASE RemoveFinalizers
  BY <1>3 DEF RemoveFinalizers
<1>4. CASE UpdateStatusAfterError \/ UpdateStatus
  BY <1>4 DEF UpdateStatusAfterError, UpdateStatus, StatusWritten
<1>5. CASE RemoveTerminator \/ RemoveInitializer \/ RemoveRefreshLabel
  BY <1>5 DEF RemoveTerminator, RemoveInitializer, RemoveClaim, RemoveRefreshLabel
<1>6. CASE Others
  BY <1>6 DEF Others, ChangeSpec, RequestRefresh, Delete, HoldForeign, ReleaseForeign,
              ReleaseClaim, Edit
<1>7. CASE UNCHANGED vars
  BY <1>7 DEF vars
<1> QED
  BY <1>1, <1>2, <1>3, <1>4, <1>5, <1>6, <1>7 DEF Next, Worker

\* A pass hands on the requeue that a subroutine asked for.
LEMMA OwedReturn ==
  ASSUME TypeOK, OwedOK, Finish, requeue \/ Waiting = {}
  PROVE  pc' = "return" /\ (ret'.after # Never \/ Waiting = {})
<1>1. now # Never
  BY ConstantFacts, LifecycleAssumption DEF TypeOK
<1> QED
  BY <1>1 DEF Finish, Return

LEMMA OwedLoop ==
  ASSUME ~HasSpread, TypeOK, PassOK, OwedOK, obj'.exists => obj.exists,
         ~cache'.exists => ~obj'.exists,
         \/ Begin \/ AddFinalizers \/ PrepareContext \/ RunSubroutine
         \/ RemoveFinalizers \/ Conclude
  PROVE  OwedOK'
<1>1. /\ Subs \subseteq Nat /\ N \in Nat /\ pos \in 1..(N + 1)
      /\ \A s \in Subs : s >= 1 /\ s <= N
  BY LifecycleAssumption DEF TypeOK, Subs
<1>2. CASE Begin
  BY <1>2 DEF Begin, ReadCopy, Return, Waiting, OwedOK, RequeueHonoured, apiVars
<1>3. CASE AddFinalizers
  BY <1>3 DEF AddFinalizers, Return, Waiting, OwedOK, RequeueHonoured
<1>4. CASE PrepareContext
  <2>1. pos = 1 /\ pos' = pos /\ orig' = orig
    BY <1>4 DEF PrepareContext, PassOK
  <2>2. \A s \in Subs : ~Passed(s)'
    BY <1>1, <2>1 DEF Passed
  <2> QED
    BY <1>4, <2>2 DEF PrepareContext, DropAll, Return, Waiting, OwedOK, RequeueHonoured
<1>5. CASE RunSubroutine /\ Succeed(Current)
  <2>1. /\ pos' = pos + 1 /\ orig' = orig /\ requeue' = requeue
        /\ Waiting' = Waiting \ {Current} /\ pc' = "subroutine" /\ pc = "subroutine"
    BY <1>5 DEF RunSubroutine, Succeed, PassSubroutine, Waiting
  <2>2. \A s \in Subs : Passed(s)' => Passed(s) \/ s = Current
    BY <1>1, <2>1 DEF Passed, Current
  <2> QED
    BY <2>1, <2>2 DEF OwedOK, RequeueHonoured
<1>6. CASE RunSubroutine /\ Finalized(Current)
  <2>1. /\ pos' = pos /\ orig' = orig /\ requeue' = requeue
        /\ Waiting' = Waiting /\ pc' = "unfinalize" /\ pc = "subroutine"
    BY <1>6 DEF RunSubroutine, Finalized, Waiting
  <2>2. \A s \in Subs : Passed(s)' = Passed(s)
    BY <2>1 DEF Passed
  <2> QED
    BY <2>1, <2>2 DEF OwedOK, RequeueHonoured
<1>7. CASE RunSubroutine /\ AskForRequeue(Current)
  BY <1>7 DEF RunSubroutine, AskForRequeue, Waiting, OwedOK, RequeueHonoured
<1>8. CASE RunSubroutine /\ (FailForNow(Current) \/ FailForGood(Current))
  BY <1>8 DEF RunSubroutine, FailForNow, FailForGood, FailSubroutine, DropAll,
              Waiting, OwedOK, RequeueHonoured
<1>9. CASE RemoveFinalizers
  <2>1. CASE pc' = "subroutine"
    <3>1. /\ pos' = pos + 1 /\ orig' = orig /\ requeue' = requeue
          /\ Waiting' = Waiting \ {Current} /\ pc = "unfinalize"
      BY <1>9, <2>1 DEF RemoveFinalizers, PassSubroutine, FailSubroutine, Waiting
    <3>2. \A s \in Subs : Passed(s)' => Passed(s) \/ s = Current
      BY <1>1, <3>1 DEF Passed, Current
    <3> QED
      BY <2>1, <3>1, <3>2 DEF OwedOK, RequeueHonoured
  <2>2. CASE pc' # "subroutine"
    <3>1. pc' = "retryError"
      BY <1>9, <2>2 DEF RemoveFinalizers, PassSubroutine, FailSubroutine
    <3> QED
      BY <3>1 DEF OwedOK, RequeueHonoured
  <2> QED
    BY <2>1, <2>2
<1>10. CASE Conclude
  <2>1. /\ pos = N + 1 /\ pc = "subroutine" /\ requeue' = requeue /\ Waiting' = Waiting
        /\ pc' \in {"terminator", "initializer", "status"}
    BY <1>10 DEF Conclude, ghosts, Waiting
  <2>2. \A s \in Subs : Passed(s)
    BY <1>1, <2>1 DEF Passed
  <2>3. requeue \/ Waiting = {}
    BY <2>1, <2>2 DEF OwedOK, TypeOK, Waiting
  <2> QED
    BY <2>1, <2>3 DEF OwedOK, RequeueHonoured
<1> QED
  BY <1>2, <1>3, <1>4, <1>5, <1>6, <1>7, <1>8, <1>9, <1>10 DEF RunSubroutine

\* What comes after the loop, up to the return.
LEMMA OwedEnd ==
  ASSUME ~HasSpread, TypeOK, OwedOK, obj'.exists => obj.exists,
         ~cache'.exists => ~obj'.exists,
         \/ UpdateStatusAfterError \/ RemoveTerminator \/ RemoveInitializer
         \/ UpdateStatus
  PROVE  OwedOK'
<1>1. CASE UpdateStatusAfterError
  BY <1>1 DEF UpdateStatusAfterError, Return, OwedOK, RequeueHonoured, Waiting, ghosts
<1>2. CASE RemoveTerminator \/ RemoveInitializer
  BY <1>2 DEF RemoveTerminator, RemoveInitializer, RemoveClaim, Return, OwedOK,
              RequeueHonoured, Waiting, ghosts
<1>3. CASE UpdateStatus
  <2>1. Waiting' = Waiting /\ (requeue \/ Waiting = {})
    BY <1>3 DEF UpdateStatus, OwedOK, Waiting, ghosts
  <2>2. Finish \/ Return(TRUE, Never)
    BY <1>3 DEF UpdateStatus, AfterStatus
  <2>3. pc' = "return" /\ (ret'.err \/ ret'.after # Never \/ Waiting = {})
    BY <2>1, <2>2, OwedReturn DEF Return
  <2> QED
    BY <2>1, <2>3 DEF OwedOK, RequeueHonoured
<1> QED
  BY <1>1, <1>2, <1>3

\* Around the pass: the queue, the timer, the watch, a restart, the others.
LEMMA OwedAround ==
  ASSUME ~HasSpread, TypeOK, OwedOK, obj'.exists => obj.exists,
         ~cache'.exists => ~obj'.exists,
         \/ HandleResult \/ FireTimer \/ Notify \/ Restart \/ Tick
         \/ Others \/ UNCHANGED vars
  PROVE  OwedOK'
<1>1. CASE HandleResult
  <2>1. now < Never /\ wake <= Never /\ ret.after <= Never
    BY ConstantFacts, LifecycleAssumption DEF TypeOK
  <2>2. wake \in Int /\ now \in Int /\ ret.after \in Int /\ Never \in Int
    BY ConstantFacts, LifecycleAssumption DEF TypeOK
  <2>3. (ret.err \/ ret.after # Never) => wake' # Never
    BY <1>1, <2>1, <2>2 DEF HandleResult, Earlier
  <2> QED
    BY <1>1, <2>3 DEF HandleResult, Waiting, OwedOK, RequeueHonoured
<1>2. CASE FireTimer \/ Notify
  BY <1>2 DEF FireTimer, Notify, Waiting, OwedOK, RequeueHonoured, Passed, passVars,
              ghosts, apiVars
<1>3. CASE Restart
  BY <1>3 DEF Restart, Waiting, OwedOK, RequeueHonoured
<1>4. CASE Others
  <2>1. /\ synced' = FALSE
        /\ UNCHANGED <<pc, orig, pos, requeue, ret, Waiting>>
    BY <1>4 DEF Others, ChangeSpec, RequestRefresh, Delete, HoldForeign, ReleaseForeign,
                ReleaseClaim, Edit, ghosts, Waiting
  <2> QED
    BY <2>1 DEF OwedOK, RequeueHonoured, Passed
<1>5. CASE Tick
  BY <1>5 DEF Tick
<1>6. CASE UNCHANGED vars
  BY <1>6 DEF vars, apiVars, queueVars, bounds, passVars, ghosts, Waiting, OwedOK,
              RequeueHonoured, Passed
<1> QED
  BY <1>1, <1>2, <1>3, <1>4, <1>5, <1>6

LEMMA OwedStep ==
  ASSUME ~HasSpread, TypeOK, PassOK, OwedOK, [Next]_vars
  PROVE  OwedOK'
<1>1. obj'.exists => obj.exists
  BY NotRemade
<1>2. ~cache'.exists => ~obj'.exists
  BY <1>1, CopiesCome DEF OwedOK
<1>3. ~SkipReconcile /\ ~RemoveRefreshLabel
  BY DEF SkipReconcile, RemoveRefreshLabel, OwedOK
<1>4. CASE \/ Begin \/ AddFinalizers \/ PrepareContext \/ RunSubroutine
           \/ RemoveFinalizers \/ Conclude
  BY <1>1, <1>2, <1>4, OwedLoop
<1>5. CASE \/ UpdateStatusAfterError \/ RemoveTerminator \/ RemoveInitializer
           \/ UpdateStatus
  BY <1>1, <1>2, <1>5, OwedEnd
<1>6. CASE \/ HandleResult \/ FireTimer \/ Notify \/ Restart \/ Tick
           \/ Others \/ UNCHANGED vars
  BY <1>1, <1>2, <1>6, OwedAround
<1> QED
  BY <1>3, <1>4, <1>5, <1>6 DEF Next, Worker

\* Without spreading, a subroutine that asked to be run again is, unless a final
\* error dropped its request: whatever subroutines after it end well or are to be
\* retried and whichever call fails, when the worker is idle the key is queued,
\* timed or about to be notified (lifecycle.go:117-199).  The exception is
\* lifecycle.go:123-125 (and 84), which return an empty result; with spreading
\* a pass may, besides, be skipped or end at the refresh label.
THEOREM OwedIsHonoured == ASSUME ~HasSpread PROVE Spec => []RequeueHonoured
<1>1. Init => ObsInv /\ OwedOK
  <2> SUFFICES ASSUME Init PROVE ObsInv /\ OwedOK
    OBVIOUS
  <2>1. ObsInv
    BY TypeInit
       DEF Init, ObsInv, GenOK, DeletionOK, PassOK, ObsOK, Processed, NewObject
  <2>2. OwedOK
    BY DEF Init, NewObject, Waiting, OwedOK, RequeueHonoured
  <2> QED
    BY <2>1, <2>2
<1>2. ObsInv /\ OwedOK /\ [Next]_vars => ObsInv' /\ OwedOK'
  BY TypeStep, DeletionStep, PassStep, ObsStep, OwedStep DEF ObsInv
<1>3. OwedOK => RequeueHonoured
  BY DEF OwedOK
<1> QED
  BY <1>1, <1>2, <1>3, PTL DEF Spec

-----------------------------------------------------------------------------
(* What all this is to a subroutine: the contract of ResourceContract.       *)

\* Finalizers come off in deletion only, and only reads that lag excuse.
ContractOK ==
  /\ pc = "unfinalize" => inst.deleting
  /\ Cached \/ LiveOK

\* For whom the object is held follows from its finalizers.
LEMMA HeldFacts ==
  /\ Gone /\ ~obj.exists => HeldFor = {}
  /\ Gone' /\ ~obj'.exists => HeldFor' = {}
  /\ OwnFinalizers \subseteq obj.fins => HeldFor = Guarded
  /\ OwnFinalizers \subseteq obj'.fins => HeldFor' = Guarded
  /\ obj'.fins \subseteq obj.fins => HeldFor' \subseteq HeldFor
  /\ obj'.fins = obj.fins => HeldFor' = HeldFor
BY GuardedFacts DEF HeldFor, Gone

\* A step that takes no finalizers off and makes nothing.
LEMMA QuietStep ==
  ASSUME Gone', obj'.exists => obj.exists, obj.deleting => obj'.deleting,
         obj \in Objects, obj' \in Objects,
         HeldFor' = HeldFor, UNCHANGED <<res, flipped>>
  PROVE  Contract!Next \/ UNCHANGED Contract!vars
<1>1. Made' = Made
  BY DEF Made
<1>2. CASE Phase' = Phase
  BY <1>1, <1>2 DEF Contract!vars
<1>3. CASE Phase' # Phase
  <2>1. Phase \in {"live", "deleting"} /\ Phase' \in {"deleting", "gone"}
    BY <1>3 DEF Phase, Objects
  <2>2. Phase' = "gone" => HeldFor' = {}
    BY HeldFacts DEF Phase
  <2>3. CASE Phase = "live"
    BY <1>1, <2>1, <2>2, <2>3 DEF Contract!Next, Contract!Delete, Contract!MayGo
  <2>4. CASE Phase = "deleting"
    BY <1>1, <2>1, <2>2, <2>4 DEF Contract!Next, Contract!Release, Contract!MayGo
  <2> QED
    BY <2>1, <2>3, <2>4
<1> QED
  BY <1>2, <1>3

\* A step in deletion that takes finalizers off.
LEMMA ReleaseStep ==
  ASSUME Gone, Gone', CoverOK', obj'.exists => obj.exists,
         obj.deleting, obj'.deleting, obj \in Objects, obj' \in Objects,
         HeldFor' \subseteq HeldFor, UNCHANGED <<res, flipped>>
  PROVE  Contract!Next \/ UNCHANGED Contract!vars
<1>1. Made' = Made
  BY DEF Made
<1>2. CASE obj.exists
  <2>1. Phase = "deleting" /\ Phase' \in {"deleting", "gone"}
    BY <1>2 DEF Phase, Objects
  <2>2. Phase' = "gone" => HeldFor' = {}
    BY HeldFacts DEF Phase
  <2>3. flipped \/ (HeldFor \ HeldFor') \cap Made = {}
    BY DEF CoverOK, CoverParts, ResCovered, HeldFor, Made
  <2> QED
    BY <1>1, <2>1, <2>2, <2>3 DEF Contract!Next, Contract!Release, Contract!MayGo
<1>3. CASE ~obj.exists
  <2>1. HeldFor = {} /\ HeldFor' = {} /\ Phase' = Phase
    BY <1>3, HeldFacts DEF Phase
  <2> QED
    BY <1>1, <2>1 DEF Contract!vars
<1> QED
  BY <1>2, <1>3

\* A subroutine makes something under its finalizers, or cleans up in deletion.
LEMMA ContractRun ==
  ASSUME CoverInv, CoverInv', RunSubroutine
  PROVE  Contract!Next \/ UNCHANGED Contract!vars
<1> DEFINE s == Current
<1>1. /\ UNCHANGED <<obj, flipped>> /\ s \in Subs
      /\ res \in [Subs -> BOOLEAN] /\ res' \in [Subs -> BOOLEAN]
  BY CurrentTypes DEF RunSubroutine, apiVars, CoverInv, TypeOK
<1>2. res' \in {res, ResIfOk(s), ResIfNot(s)}
  BY DEF RunSubroutine, Succeed, Finalized, AskForRequeue, FailForNow, FailForGood
<1>3. Phase' = Phase /\ HeldFor' = HeldFor
  BY <1>1 DEF Phase, HeldFor
<1>4. \A t \in Subs : t # s => res'[t] = res[t]
  BY <1>1, <1>2 DEF ResIfOk, ResIfNot
<1>5. CASE s \notin Guarded \/ res'[s] = res[s]
  <2>1. \A t \in Guarded : res'[t] = res[t]
    BY <1>4, <1>5, GuardedFacts
  <2>2. Made' = Made
    BY <2>1 DEF Made
  <2> QED
    BY <1>1, <1>3, <2>2 DEF Contract!vars
<1>6. CASE s \in Guarded /\ res'[s] /\ ~res[s]
  <2>1. Made' = Made \cup {s}
    BY <1>4, <1>6, GuardedFacts DEF Made
  <2>2. s \in HeldFor \/ flipped
    BY <1>1, <1>6 DEF CoverInv, CoverOK, CoverParts, ResCovered, HeldFor
  <2>3. Contract!Make(s)
    BY <1>1, <1>3, <2>1, <2>2 DEF Contract!Make
  <2> QED
    BY <1>6, <2>3 DEF Contract!Next
<1>7. CASE s \in Guarded /\ ~res'[s] /\ res[s]
  <2>1. Made' = Made \ {s}
    BY <1>4, <1>7, GuardedFacts DEF Made
  <2>2. Branch(s) \notin Creating /\ Branch(s) # "None"
    BY <1>1, <1>2, <1>7 DEF ResIfOk, ResIfNot
  <2>3. inst.deleting
    BY <2>2 DEF Branch, Creating
  <2>4. Phase # "live"
    BY <2>3 DEF CoverInv, DeletionOK, Phase
  <2>5. Contract!Clean(s)
    BY <1>1, <1>3, <2>1, <2>4 DEF Contract!Clean
  <2> QED
    BY <1>7, <2>5 DEF Contract!Next
<1> QED
  BY <1>1, <1>5, <1>6, <1>7, GuardedFacts

\* The patch adds the finalizers of all to a live object, or tells of a deletion.
LEMMA ContractAdd ==
  ASSUME CoverInv, CoverInv', ContractOK', obj'.exists => obj.exists,
         obj.deleting => obj'.deleting, AddFinalizers
  PROVE  Contract!Next \/ UNCHANGED Contract!vars
<1> DEFINE list == inst.fins \cup OwnFinalizers
           new  == [obj EXCEPT !.fins = list]
<1>0. /\ obj \in Objects /\ obj' \in Objects /\ Gone /\ Gone' /\ res' = res
      /\ flipped \in BOOLEAN /\ flipped' \in BOOLEAN
  BY DEF AddFinalizers, CoverInv, TypeOK
<1>1. CASE obj' = obj /\ flipped' = flipped
  BY <1>0, <1>1, QuietStep DEF HeldFor
<1>2. CASE ~(obj' = obj /\ flipped' = flipped)
  <2>1. /\ list # inst.fins /\ ~ReadOnly
        /\ FinalizersAccepted(list) /\ obj' = Reaped(new)
        /\ flipped' \in {flipped, flipped \/ obj'.deleting}
    BY <1>2 DEF AddFinalizers, CallSucceeds, CallFails, Write, apiVars
  <2>2. /\ obj'.fins = list /\ obj'.deleting = obj.deleting /\ obj.exists
        /\ obj.deleting => list \subseteq obj.fins
    BY <1>0, <2>1 DEF Reaped, FinalizersAccepted, Objects
  <2>3. HeldFor' = Guarded
    BY <2>2, HeldFacts
  <2>4. CASE ~obj.deleting
    <3>1. Phase = "live" /\ Phase' = "live"
      BY <1>0, <2>1, <2>2, <2>4 DEF Phase, Reaped, Objects
    <3>2. flipped' = flipped /\ Made' = Made
      BY <1>0, <2>1, <2>2, <2>4 DEF Made
    <3> QED
      BY <2>3, <3>1, <3>2 DEF Contract!Next, Contract!Hold
  <2>5. CASE obj.deleting
    <3>1. HeldFor = Guarded
      BY <2>2, <2>5, HeldFacts
    <3>2. CASE flipped' = flipped
      BY <1>0, <2>3, <3>1, <3>2, QuietStep
    <3>3. CASE flipped' # flipped
      <4>1. flipped' = TRUE
        BY <1>0, <2>1, <3>3
      <4>2. Cached
        BY <4>1 DEF ContractOK, LiveOK
      <4>3. list # {}
        BY <2>1
      <4>4. Phase = "deleting" /\ Phase' = "deleting"
        BY <1>0, <2>1, <2>2, <2>5, <4>3 DEF Phase, Reaped, Objects
      <4>5. Made' = Made
        BY <1>0 DEF Made
      <4> QED
        BY <2>3, <3>1, <4>1, <4>2, <4>4, <4>5 DEF Contract!Next, Contract!Excuse
    <3> QED
      BY <3>2, <3>3
  <2> QED
    BY <2>4, <2>5
<1> QED
  BY <1>1, <1>2

\* Finalizers come off an object in deletion.
LEMMA ContractUnfinalize ==
  ASSUME CoverInv, CoverInv', ContractOK, obj'.exists => obj.exists,
         obj.deleting => obj'.deleting, RemoveFinalizers
  PROVE  Contract!Next \/ UNCHANGED Contract!vars
<1> DEFINE list == FinalizersLeft(Current)
           new  == [obj EXCEPT !.fins = list]
<1>1. /\ obj \in Objects /\ obj' \in Objects /\ Gone /\ Gone' /\ CoverOK'
      /\ UNCHANGED <<res, flipped>> /\ pc = "unfinalize"
  BY DEF RemoveFinalizers, CoverInv, TypeOK
<1>2. obj.deleting /\ obj'.deleting
  BY <1>1 DEF ContractOK, CoverInv, DeletionOK
<1>3. \/ obj' = obj
      \/ FinalizersAccepted(list) /\ obj' = Reaped(new)
  BY DEF RemoveFinalizers, CallSucceeds, CallFails, Write, apiVars
<1>4. obj'.fins \subseteq obj.fins
  BY <1>1, <1>2, <1>3 DEF Reaped, FinalizersAccepted, Objects
<1>5. HeldFor' \subseteq HeldFor
  BY <1>4, HeldFacts
<1> QED
  BY <1>1, <1>2, <1>5, ReleaseStep

\* Nobody else touches the subroutines' finalizers.
LEMMA OthersKeepHeld ==
  ASSUME TypeOK, Others
  PROVE  HeldFor' = HeldFor /\ UNCHANGED <<res, flipped>>
<1>1. UNCHANGED <<res, flipped>>
  BY OthersKeepDeletion DEF ghosts
<1>2. \A s \in Subs : Finalizers[s] \cap Foreign = {}
  BY ConstantFacts, LifecycleAssumption
<1>3. \A s \in Guarded : Finalizers[s] \subseteq obj'.fins <=> Finalizers[s] \subseteq obj.fins
  <2> USE DEF Edit, Reaped, TypeOK, Objects
  <2>1. CASE ChangeSpec \/ RequestRefresh \/ Delete
    BY <2>1 DEF ChangeSpec, RequestRefresh, Delete
  <2>2. CASE ReleaseClaim
    BY <2>2 DEF ReleaseClaim
  <2>3. CASE HoldForeign
    <3>1. PICK f \in Foreign : obj'.fins = obj.fins \cup {f}
      BY <2>3 DEF HoldForeign
    <3> QED
      BY <1>2, <3>1, GuardedFacts
  <2>4. CASE ReleaseForeign
    <3>1. PICK f \in Foreign : obj'.fins = obj.fins \ {f}
      BY <2>4 DEF ReleaseForeign
    <3> QED
      BY <1>2, <3>1, GuardedFacts
  <2> QED
    BY <2>1, <2>2, <2>3, <2>4 DEF Others
<1> QED
  BY <1>1, <1>3 DEF HeldFor

\* Nor does any other step of the worker or its surroundings.
LEMMA RestKeepsHeld ==
  ASSUME TypeOK,
         \/ Begin \/ SkipReconcile \/ PrepareContext \/ UpdateStatusAfterError \/ Conclude
         \/ RemoveTerminator \/ RemoveInitializer \/ UpdateStatus \/ RemoveRefreshLabel
         \/ HandleResult \/ FireTimer \/ Notify \/ Restart \/ Tick \/ UNCHANGED vars
  PROVE  HeldFor' = HeldFor /\ UNCHANGED <<res, flipped>>
<1> USE DEF apiVars, ghosts
<1>1. UNCHANGED <<res, flipped>>
  BY DEF Begin, SkipReconcile, PrepareContext, UpdateStatusAfterError, Conclude,
     RemoveTerminator, RemoveInitializer, RemoveClaim, UpdateStatus, RemoveRefreshLabel,
     HandleResult, FireTimer, Notify, Restart, Tick, vars
<1>2. CASE \/ Begin \/ SkipReconcile \/ PrepareContext \/ Conclude \/ HandleResult
           \/ FireTimer \/ Notify \/ Restart \/ Tick \/ UNCHANGED vars
  BY <1>1, <1>2 DEF Begin, SkipReconcile, PrepareContext, Conclude, HandleResult,
     FireTimer, Notify, Restart, Tick, vars, HeldFor
<1>3. CASE UpdateStatusAfterError \/ UpdateStatus \/ RemoveTerminator
           \/ RemoveInitializer \/ RemoveRefreshLabel
  <2>1. /\ StatusWritten \in Objects /\ StatusWritten.fins = obj.fins
        /\ \A c : [obj EXCEPT !.terms = inst.terms \ {c}].fins = obj.fins
        /\ \A c : [obj EXCEPT !.inits = inst.inits \ {c}].fins = obj.fins
        /\ [obj EXCEPT !.refresh = FALSE].fins = obj.fins
    BY PatchTypes DEF StatusWritten, TypeOK, Objects
  <2>2. CASE UpdateStatusAfterError \/ UpdateStatus
    BY <2>1, <2>2, CallKeepsFins, HeldFacts DEF UpdateStatusAfterError, UpdateStatus
  <2>3. CASE RemoveTerminator \/ RemoveInitializer
    BY <2>1, <2>3, CallKeepsFins, HeldFacts, PatchTypes
       DEF RemoveTerminator, RemoveInitializer, RemoveClaim
  <2>4. CASE RemoveRefreshLabel
    BY <2>1, <2>4, CallKeepsFins, HeldFacts, PatchTypes DEF RemoveRefreshLabel
  <2> QED
    BY <1>1, <1>3, <2>2, <2>3, <2>4
<1> QED
  BY <1>2, <1>3

\* The worker is at the removal of finalizers only in deletion.
LEMMA UnfinalizesDeleting ==
  ASSUME TypeOK, pc = "unfinalize" => inst.deleting, [Next]_vars
  PROVE  pc' = "unfinalize" => inst'.deleting
<1> USE DEF Return, passVars
<1>1. CASE RunSubroutine
  <2>1. pc' = "unfinalize" => Finalized(Current)
    BY <1>1 DEF RunSubroutine, Succeed, Finalized, AskForRequeue, FailForNow, FailForGood,
       FailSubroutine, PassSubroutine
  <2>2. Finalized(Current) => inst.deleting /\ inst' = inst
    BY DEF Finalized, Branch
  <2> QED
    BY <2>1, <2>2
<1>2. CASE \/ Begin \/ SkipReconcile \/ AddFinalizers \/ PrepareContext \/ RemoveFinalizers
           \/ UpdateStatusAfterError \/ Conclude \/ HandleResult \/ Restart
  BY <1>2 DEF Begin, SkipReconcile, AddFinalizers, PrepareContext, RemoveFinalizers,
     UpdateStatusAfterError, Conclude, HandleResult, Restart, PassSubroutine, FailSubroutine
<1>3. CASE RemoveTerminator \/ RemoveInitializer \/ UpdateStatus \/ RemoveRefreshLabel
  BY <1>3 DEF RemoveTerminator, RemoveInitializer, RemoveClaim, UpdateStatus, AfterStatus,
     RemoveRefreshLabel, Finish
<1>4. CASE FireTimer \/ Notify \/ Tick \/ UNCHANGED vars
  BY <1>4 DEF FireTimer, Notify, Tick, vars
<1>5. CASE Others
  BY <1>5, OthersKeepDeletion
<1> QED
  BY <1>1, <1>2, <1>3, <1>4, <1>5 DEF Next, Worker

\* The invariant of the refinement.
LEMMA ContractInductive ==
  /\ Init => CoverInv /\ ContractOK
  /\ CoverInv /\ ContractOK /\ [Next]_vars => CoverInv' /\ ContractOK'
<1>1. Init => CoverInv /\ ContractOK
  BY CoverInductive DEF Init, ContractOK, LiveOK
<1>2. ASSUME CoverInv, ContractOK, [Next]_vars PROVE CoverInv' /\ ContractOK'
  <2>1. TypeOK
    BY <1>2 DEF CoverInv
  <2>2. Cached \/ LiveOK'
    BY <1>2, <2>1, LiveStep DEF ContractOK
  <2> QED
    BY <1>2, <2>1, <2>2, CoverInductive, UnfinalizesDeleting DEF ContractOK
<1> QED
  BY <1>1, <1>2

\* Reconcile implements the contract, for any subroutines and any interference:
\* finalizers come on a live object, all at once, before anything is made
\* (lifecycle.go:70), and off in deletion after the clean-up (lifecycle.go:213-219);
\* what is let go is never made again.
THEOREM ReconcileHonoursContract == Spec => HonoursContract
<1>1. Init => Contract!Init
  <2> SUFFICES ASSUME Init PROVE Contract!Init
    OBVIOUS
  <2>1. Phase = "live" /\ flipped = FALSE /\ \A s \in Guarded : ~res[s]
    BY GuardedFacts DEF Init, NewObject, Phase
  <2>2. HeldFor = {}
    BY GuardedFacts DEF Init, NewObject, HeldFor
  <2> QED
    BY <2>1, <2>2 DEF Contract!Init, Made
<1>2. CoverInv /\ ContractOK /\ CoverInv' /\ ContractOK' /\ [Next]_vars
        => [Contract!Next]_(Contract!vars)
  <2> SUFFICES ASSUME CoverInv, ContractOK, CoverInv', ContractOK', [Next]_vars
               PROVE  Contract!Next \/ UNCHANGED Contract!vars
    OBVIOUS
  <2>1. /\ TypeOK /\ Gone' /\ obj \in Objects /\ obj' \in Objects
        /\ obj.deleting => obj'.deleting
        /\ obj'.exists => obj.exists
    BY NotRemade, StepKeepsDeletion DEF CoverInv, TypeOK
  <2>2. CASE AddFinalizers
    BY <2>1, <2>2, ContractAdd
  <2>3. CASE RemoveFinalizers
    BY <2>1, <2>3, ContractUnfinalize
  <2>4. CASE RunSubroutine
    BY <2>4, ContractRun
  <2>5. CASE Others
    BY <2>1, <2>5, OthersKeepHeld, QuietStep
  <2>6. CASE ~(AddFinalizers \/ RemoveFinalizers \/ RunSubroutine \/ Others)
    <3>1. HeldFor' = HeldFor /\ UNCHANGED <<res, flipped>>
      BY <2>1, <2>6, RestKeepsHeld DEF Next, Worker
    <3> QED
      BY <2>1, <3>1, QuietStep
  <2> QED
    BY <2>2, <2>3, <2>4, <2>5, <2>6
<1> QED
  BY <1>1, <1>2, ContractInductive, PTL DEF Spec, HonoursContract, Contract!Spec
=============================================================================
