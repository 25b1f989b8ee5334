----------------------------- MODULE Lifecycle -----------------------------
(***************************************************************************)
(* One reconcile pass of controller/lifecycle/lifecycle.go, step by step,   *)
(* with what surrounds it: the API server's copy of one object, the copy    *)
(* the controller reads, the work queue, and the actors that edit, delete   *)
(* and hold the object.  Every call that leaves the process (a client       *)
(* write, a subroutine, PrepareContextFunc) is one action, so that anything *)
(* else may happen between two of them; the pure code between two calls is  *)
(* part of the action that follows or precedes it.                          *)
(***************************************************************************)
EXTENDS Integers, FiniteSets

CONSTANTS
  N,              \* number of subroutines, run in the order 1..N
  Finalizers,     \* Finalizers[s]: the finalizer names subroutine s answers to
  Initializers,   \* the subroutines that implement subroutine.Initializer
  Terminators,    \* the subroutines that implement subroutine.Terminator
  Outcomes,       \* Outcomes[s]: how a call of subroutine s may end
  PrepareOutcomes,\* how PrepareContextFunc may end; {"ok"} when there is none
  HasConditions,  \* l.ConditionsManager() != nil
  HasSpread,      \* l.Spreader() != nil
  ReadOnly,       \* l.Config().ReadOnly
  Initializer,    \* l.Initializer(), "" when there is none
  Terminator,     \* l.Terminator(), "" when there is none
  Cached,         \* TRUE: Get is served by an informer cache that may lag
  Foreign,        \* finalizer names that other controllers put on the object
  Claims0,        \* initializers and terminators a new object carries
  HalfDelay,      \* half the longest time between two spread reconciles
  MaxTime,        \* bound on the clock
  MaxEdits,       \* bound on the edits other actors make
  MaxFaults       \* bound on failed calls, requeues, retries and restarts

Subs == 1..N
OwnFinalizers == UNION {Finalizers[s] : s \in Subs}
AllOutcomes == {"ok", "requeue", "retry", "final"}

\* A mutation of Delays: the jitter is added to the maximum, not to its half.
DelaysOverMax == {2 * HalfDelay + jitter : jitter \in 0..HalfDelay}

\* getNextReconcileTime: half the maximum plus a jitter below the half.
Delays == {HalfDelay + jitter : jitter \in 0..(HalfDelay - 1)}

\* A time no timer reaches: the delaying queue holds no entry.
Never == MaxTime + 2 * HalfDelay

ASSUME LifecycleAssumption ==
  /\ N \in Nat
  /\ Finalizers \in [Subs -> SUBSET STRING]
  /\ Initializers \subseteq Subs /\ Terminators \subseteq Subs
  /\ Outcomes \in [Subs -> SUBSET AllOutcomes]
  /\ PrepareOutcomes \subseteq {"ok", "retry", "final"}
  /\ HasConditions \in BOOLEAN /\ HasSpread \in BOOLEAN
  /\ ReadOnly \in BOOLEAN /\ Cached \in BOOLEAN
  /\ Initializer \in STRING /\ Terminator \in STRING
  /\ Foreign \subseteq STRING /\ Foreign \cap OwnFinalizers = {}
  /\ Claims0 \subseteq STRING
  /\ HalfDelay \in Nat \ {0}
  /\ MaxTime \in Nat /\ MaxEdits \in Nat /\ MaxFaults \in Nat

\* SetupWithManagerBuilder refuses conditions or spreading in read-only mode.
SetupAllowed == ReadOnly => ~HasConditions /\ ~HasSpread

ASSUME SetupAssumption == SetupAllowed

VARIABLES
  obj,      \* the object as the API server holds it
  cache,    \* the copy Get returns when reads are cached
  synced,   \* no watch event is outstanding: the watcher has seen obj
  queued,   \* the key is in the work queue
  wake,     \* when the delaying queue will add the key, or Never
  now,      \* the clock
  faults, edits,          \* how much of MaxFaults and MaxEdits is used
  pc,       \* where the worker is in Reconcile
  inst,     \* Reconcile's instance
  orig,     \* its originalCopy
  fresh,    \* inst carries the resource version of obj
  condArr,  \* Reconcile's condArr
  pos,      \* index into the subroutines slice
  requeue,  \* result.RequeueAfter > 0
  ret,      \* what Reconcile returned
  res,      \* res[s]: what subroutine s created outside exists (history)
  ran,      \* ran[s]: generation s was processed for in this pass (history)
  full,     \* generations all subroutines processed in one pass (history)
  gaveUp,   \* generations a pass ended on with a final error (history)
  owed,     \* subroutines that asked to be run again (history)
  dropped,  \* those of them whose request a final error dropped (history)
  flipped   \* a pass not begun in deletion was told of it by a patch (history)

apiVars   == <<obj, cache, synced>>
queueVars == <<queued, wake>>
passVars  == <<inst, orig, fresh, condArr, pos, requeue>>
ghosts    == <<res, ran, full, gaveUp, owed, dropped, flipped>>
bounds    == <<now, faults, edits>>
vars == <<apiVars, queueVars, bounds, pc, passVars, ret, ghosts>>

-----------------------------------------------------------------------------
(* The object, its conditions and its status.                               *)

\* The instance's Ready condition and, per subroutine, its two conditions.
ReadyCond == <<0, "Ready">>
CondNames == {ReadyCond} \cup (Subs \X {"Ready", "Finalize"})
CondOf(s, inDeletion) == <<s, IF inDeletion THEN "Finalize" ELSE "Ready">>

Generations == 1..(MaxEdits + 2)
CondStates == {"absent", "Unknown", "True", "False"}
Conditions == [CondNames -> [status : CondStates, gen : 0..(MaxEdits + 2)]]
NoConditions == [c \in CondNames |-> [status |-> "absent", gen |-> 0]]

Objects ==
  [exists : BOOLEAN, deleting : BOOLEAN, refresh : BOOLEAN,
   gen : Generations, fins : SUBSET (OwnFinalizers \cup Foreign),
   inits : SUBSET Claims0, terms : SUBSET Claims0,
   obs : 0..(MaxEdits + 2), next : 0..Never, conds : Conditions]

NewObject ==
  [exists |-> TRUE, deleting |-> FALSE, refresh |-> FALSE, gen |-> 1,
   fins |-> {}, inits |-> Claims0, terms |-> Claims0,
   obs |-> 0, next |-> 0, conds |-> NoConditions]

Status(o) == <<o.inits, o.terms, o.obs, o.next, o.conds>>

\* meta.SetStatusCondition on a condition list the caller keeps.
SetCond(conds, c, status, gen) ==
  IF HasConditions
  THEN [conds EXCEPT ![c] = [status |-> status, gen |-> gen]] ELSE conds

SetUnknownIfNotSet(conds, c, gen) ==
  IF conds[c].status = "absent" THEN SetCond(conds, c, "Unknown", gen)
  ELSE conds

\* Two mutations of ReconcileRequired: blind to a new generation, and always true.
RequiredByTime(o) == now >= o.next \/ o.refresh
AlwaysRequired(o) == o \in Objects

\* ReconcileRequired: a new generation, a next reconcile time that has come (to
\* the tick of this clock), or the refresh label.
ReconcileRequired(o) == o.gen # o.obs \/ now >= o.next \/ o.refresh

\* MarkResourceAsFinal, on the instance: SetNextReconcileTime draws a delay,
\* UpdateObservedGeneration copies the generation.
Marked(o, delay) ==
  IF HasSpread /\ ~o.deleting
  THEN [o EXCEPT !.next = now + delay, !.obs = o.gen] ELSE o

\* MarkResourceAsFinal, on the conditions: the slice is passed by value, so a
\* Ready condition that is not in it yet is appended to a copy and lost.
MarkedReady(conds, status, gen) ==
  IF conds[ReadyCond].status = "absent" THEN conds
  ELSE SetCond(conds, ReadyCond, status, gen)

-----------------------------------------------------------------------------
(* The API server.                                                          *)

\* An object in deletion goes away with its last finalizer.
Reaped(o) == IF o.deleting /\ o.fins = {} THEN [o EXCEPT !.exists = FALSE]
             ELSE o

Write(o) == /\ obj' = Reaped(o)
            /\ synced' = (synced /\ obj' = obj)
            /\ UNCHANGED cache

\* A merge patch replaces the whole finalizer list and names no resource
\* version; the server refuses new finalizers on an object in deletion.
FinalizersAccepted(list) == obj.exists /\ (obj.deleting => list \subseteq obj.fins)

Fault == faults < MaxFaults /\ faults' = faults + 1

\* A client call that the server accepts exactly when ok holds.
CallSucceeds(ok, o) == ok /\ Write(o) /\ UNCHANGED faults

\* Refused, failed before the write, or failed after it (a lost response).
CallFails(ok, o) ==
  \/ ~ok /\ UNCHANGED <<apiVars, faults>>
  \/ ok /\ Fault /\ (UNCHANGED apiVars \/ Write(o))

-----------------------------------------------------------------------------
(* Reconcile.                                                               *)

Return(err, after) ==
  /\ pc' = "return"
  /\ ret' = [err |-> err, after |-> after]

ReadCopy == IF Cached THEN cache ELSE obj

\* A worker takes the key, reads the object, copies it, and lets the spreader
\* decide whether there is anything to do.
Begin ==
  /\ pc = "idle" /\ queued
  /\ queued' = FALSE
  /\ \/ /\ Fault                                        \* Get fails
        /\ Return(TRUE, Never)
        /\ UNCHANGED <<passVars, ran>>
     \/ /\ ~ReadCopy.exists                                 \* NotFound
        /\ Return(FALSE, Never)
        /\ UNCHANGED <<faults, passVars, ran>>
     \/ /\ ReadCopy.exists
        /\ inst' = ReadCopy /\ orig' = ReadCopy
        /\ fresh' = (synced \/ ~Cached)
        /\ condArr' = ReadCopy.conds
        /\ pos' = 1 /\ requeue' = FALSE
        /\ ran' = [s \in Subs |-> 0]
        /\ pc' = IF HasSpread /\ ~ReadCopy.deleting /\ ~ReconcileRequired(ReadCopy)
                 THEN "skip" ELSE "finalizers"
        /\ UNCHANGED <<faults, ret>>
  /\ UNCHANGED <<apiVars, wake, now, edits, res, full, gaveUp, owed, dropped, flipped>>

\* OnNextReconcile: time.Until may have become negative since the check, and
\* controller-runtime requeues nothing for a result that is not positive.
SkipReconcile ==
  /\ pc = "skip"
  /\ Return(FALSE, IF now < inst.next THEN inst.next ELSE Never)
  /\ UNCHANGED <<apiVars, queueVars, bounds, passVars, ghosts>>

\* AddFinalizersIfNeeded: every missing finalizer in one patch.
AddFinalizers ==
  LET list == inst.fins \cup OwnFinalizers
      new  == [obj EXCEPT !.fins = list]
      ok   == FinalizersAccepted(list)
  IN
  /\ pc = "finalizers"
  /\ IF ReadOnly \/ inst.deleting \/ list = inst.fins
     THEN /\ pc' = "prepare"
          /\ UNCHANGED <<apiVars, faults, passVars, ret, flipped>>
     ELSE \/ /\ CallSucceeds(ok, new)
             /\ inst' = obj' /\ fresh' = TRUE /\ condArr' = obj'.conds
             /\ pc' = "prepare"
             /\ flipped' = (flipped \/ inst'.deleting)
             /\ UNCHANGED <<orig, pos, requeue, ret>>
          \/ /\ CallFails(ok, new)
             /\ Return(TRUE, Never)
             /\ UNCHANGED <<passVars, flipped>>
  /\ UNCHANGED <<queueVars, now, edits, res, ran, full, gaveUp, owed, dropped>>

\* s asks to be run again.
Ask(s) == owed' = owed \cup {s} /\ dropped' = dropped \ {s}

\* A final error returns an empty result: what the subroutines of done needed is
\* over, and what the others asked for is forgotten with it.
DropAll(done) == owed' = owed \ done /\ dropped' = owed \ done

\* The instance's Ready condition is set if it is not there, then
\* PrepareContextFunc runs; its error ends the pass and persists nothing.
PrepareContext ==
  /\ pc = "prepare"
  /\ condArr' = SetUnknownIfNotSet(condArr, ReadyCond, inst.gen)
  /\ \/ /\ "ok" \in PrepareOutcomes
        /\ pc' = "subroutine"
        /\ UNCHANGED <<faults, ret, gaveUp, owed, dropped>>
     \/ /\ "retry" \in PrepareOutcomes /\ Fault
        /\ Return(TRUE, Never)
        /\ UNCHANGED <<gaveUp, owed, dropped>>
     \/ /\ "final" \in PrepareOutcomes
        /\ Return(FALSE, Never)
        /\ gaveUp' = gaveUp \cup {inst.gen} /\ DropAll({})
        /\ UNCHANGED faults
  /\ UNCHANGED <<apiVars, queueVars, now, edits, inst, orig, fresh, pos,
                 requeue, res, ran, full, flipped>>

\* The subroutines are reversed when the object was read in deletion.
Current == IF orig.deleting THEN N + 1 - pos ELSE pos

\* A mutation of Branch: a subroutine without finalizers is not terminated.
BranchWithoutTerminate(s) ==
  CASE inst.deleting /\ Finalizers[s] \cap inst.fins # {} -> "Finalize"
    [] inst.deleting /\ Finalizers[s] \cap inst.fins = {} -> "None"
    [] ~inst.deleting /\ s \in Initializers               -> "Initialize"
    [] ~inst.deleting /\ s \notin Initializers            -> "Process"

\* The branch reconcileSubroutine takes: it looks at the instance as it is by
\* now, which a patch may have refreshed.
Branch(s) ==
  CASE inst.deleting /\ s \in Terminators              -> "Terminate"
    [] inst.deleting /\ s \notin Terminators /\ Finalizers[s] \cap inst.fins # {}
                                                       -> "Finalize"
    [] inst.deleting /\ s \notin Terminators /\ Finalizers[s] \cap inst.fins = {}
                                                       -> "None"
    [] ~inst.deleting /\ s \in Initializers            -> "Initialize"
    [] ~inst.deleting /\ s \notin Initializers         -> "Process"

\* Two mutations of FailSubroutine: every error is retried, and the instance's
\* Ready condition is left alone.
FailSubroutineRetries(s, conds, final) ==
  /\ condArr' = SetCond(SetCond(conds, CondOf(s, orig.deleting), "False", inst.gen),
                        ReadyCond, "False", inst.gen)
  /\ pc' = "retryError"
FailSubroutineKeepsReady(s, conds, final) ==
  /\ condArr' = SetCond(conds, CondOf(s, orig.deleting), "False", inst.gen)
  /\ pc' = IF final THEN "finalError" ELSE "retryError"

\* Reconcile's error branch up to its status update.
FailSubroutine(s, conds, final) ==
  /\ condArr' = SetCond(SetCond(conds, CondOf(s, orig.deleting), "False", inst.gen),
                        ReadyCond, "False", inst.gen)
  /\ pc' = IF final THEN "finalError" ELSE "retryError"

\* The subroutine ended well and nothing is left to do for it.
PassSubroutine(s, conds, gen) ==
  /\ condArr' = SetCond(conds, CondOf(s, orig.deleting), "True", gen)
  /\ pos' = pos + 1
  /\ pc' = "subroutine"
  /\ ran' = IF inst.deleting THEN ran ELSE [ran EXCEPT ![s] = gen]
  /\ owed' = owed \ {s} /\ dropped' = dropped \ {s}

\* Process and Initialize may leave something behind even when they fail; only
\* a Finalize or Terminate that succeeds is known to have removed it.
Creating == {"Process", "Initialize"}

\* The condition list a subroutine is run with.
CondsOf(s) == SetUnknownIfNotSet(condArr, CondOf(s, orig.deleting), inst.gen)

\* What s leaves outside when it ends well, and when it does not.
ResIfOk(s) ==
  [res EXCEPT ![s] = Branch(s) \in Creating \/ (Branch(s) = "None" /\ @)]
ResIfNot(s) == IF Branch(s) \in Creating THEN [res EXCEPT ![s] = TRUE] ELSE res

\* A mutation of Succeed: the last subroutine's result replaces the earlier ones.
SucceedForAll(s) ==
  /\ Branch(s) = "None" \/ "ok" \in Outcomes[s]
  /\ Branch(s) # "Finalize" \/ ReadOnly
  /\ PassSubroutine(s, CondsOf(s), inst.gen)
  /\ res' = ResIfOk(s)
  /\ requeue' = FALSE
  /\ UNCHANGED <<faults, inst, gaveUp>>

\* No error and no requeue, and no finalizer to take off.
Succeed(s) ==
  /\ Branch(s) = "None" \/ "ok" \in Outcomes[s]
  /\ Branch(s) # "Finalize" \/ ReadOnly
  /\ PassSubroutine(s, CondsOf(s), inst.gen)
  /\ res' = ResIfOk(s)
  /\ UNCHANGED <<faults, inst, requeue, gaveUp>>

\* A mutation of Finalized: the finalizers come off whatever RequeueAfter is.
FinalizedAnyway(s) ==
  /\ Branch(s) = "Finalize" /\ ~ReadOnly
  /\ \/ "ok" \in Outcomes[s] /\ res' = ResIfOk(s)
     \/ "requeue" \in Outcomes[s] /\ res' = ResIfNot(s)
  /\ condArr' = CondsOf(s)
  /\ pc' = "unfinalize"
  /\ UNCHANGED <<faults, inst, requeue, pos, ran, gaveUp, owed, dropped>>

\* Finalize ended well: its finalizers come off next.
Finalized(s) ==
  /\ Branch(s) = "Finalize" /\ ~ReadOnly /\ "ok" \in Outcomes[s]
  /\ res' = ResIfOk(s)
  /\ condArr' = CondsOf(s)
  /\ pc' = "unfinalize"
  /\ UNCHANGED <<faults, inst, requeue, pos, ran, gaveUp, owed, dropped>>

\* A mutation of AskForRequeue: the result is not kept.
AskInVain(s) ==
  /\ Branch(s) # "None" /\ "requeue" \in Outcomes[s] /\ Fault
  /\ condArr' = CondsOf(s)
  /\ pos' = pos + 1
  /\ res' = ResIfNot(s)
  /\ Ask(s)
  /\ UNCHANGED <<pc, inst, requeue, ran, gaveUp>>

\* RequeueAfter > 0: the next subroutine runs all the same, and the condition
\* of this one stays what it was.
AskForRequeue(s) ==
  /\ Branch(s) # "None" /\ "requeue" \in Outcomes[s] /\ Fault
  /\ requeue' = TRUE
  /\ condArr' = CondsOf(s)
  /\ pos' = pos + 1
  /\ res' = ResIfNot(s)
  /\ Ask(s)
  /\ UNCHANGED <<pc, inst, ran, gaveUp>>

\* An OperatorError with Retry().
FailForNow(s) ==
  /\ Branch(s) # "None" /\ "retry" \in Outcomes[s] /\ Fault
  /\ FailSubroutine(s, CondsOf(s), FALSE)
  /\ res' = ResIfNot(s)
  /\ Ask(s)
  /\ UNCHANGED <<inst, requeue, pos, ran, gaveUp>>

\* An OperatorError without: the resource is marked final, and the RequeueAfter
\* that an earlier subroutine of the pass asked for is not returned.
FailForGood(s) ==
  /\ Branch(s) # "None" /\ "final" \in Outcomes[s]
  /\ FailSubroutine(s, CondsOf(s), TRUE)
  /\ \E d \in Delays : inst' = Marked(inst, d)
  /\ res' = ResIfNot(s)
  /\ gaveUp' = gaveUp \cup {inst.gen} /\ DropAll({s})
  /\ UNCHANGED <<faults, requeue, pos, ran>>

RunSubroutine ==
  /\ pc = "subroutine" /\ pos <= N
  /\ \/ Succeed(Current) \/ Finalized(Current) \/ AskForRequeue(Current)
     \/ FailForNow(Current) \/ FailForGood(Current)
  /\ UNCHANGED <<apiVars, queueVars, now, edits, orig, fresh, ret, full, flipped>>

\* Two mutations of FinalizersLeft: none comes off, and those of all do.
KeepFinalizers(s) == inst.fins \ {}
AllFinalizersOff(s) == {f \in inst.fins : f \in Foreign}

\* The finalizer list without those of s.
FinalizersLeft(s) == inst.fins \ Finalizers[s]

\* The response of a patch is decoded into the instance: it replaces the
\* conditions, unless the server has none and omits the field.
Decoded(conds) == IF HasConditions /\ conds # NoConditions THEN conds ELSE condArr

\* removeFinalizerIfNeeded after a Finalize that asked for no requeue.
RemoveFinalizers ==
  LET s == Current
      list == FinalizersLeft(s)
      new  == [obj EXCEPT !.fins = list]
      ok   == FinalizersAccepted(list)
  IN
  /\ pc = "unfinalize"
  /\ \/ /\ CallSucceeds(ok, new)
        /\ inst' = obj' /\ fresh' = TRUE
        /\ PassSubroutine(s, Decoded(obj'.conds), obj'.gen)
     \/ /\ CallFails(ok, new)
        /\ inst' = [inst EXCEPT !.fins = list] /\ fresh' = (fresh /\ obj' = obj)
        /\ FailSubroutine(s, condArr, FALSE)
        /\ Ask(s)
        /\ UNCHANGED <<pos, ran>>
  /\ UNCHANGED <<queueVars, now, edits, orig, requeue, ret, res, full, gaveUp,
                 flipped>>

\* updateStatus: nothing to write when the status is the one that was read;
\* otherwise an update that names the instance's resource version.
StatusToWrite == [inst EXCEPT !.conds = condArr]
StatusEqual == Status(StatusToWrite) = Status(orig)
StatusWritten == [obj EXCEPT !.inits = inst.inits, !.terms = inst.terms,
                             !.obs = inst.obs, !.next = inst.next, !.conds = condArr]

\* The error branch's own status update, whose error is dropped.
UpdateStatusAfterError ==
  /\ pc \in {"retryError", "finalError"}
  /\ IF ReadOnly \/ StatusEqual THEN UNCHANGED <<apiVars, faults>>
     ELSE \/ CallSucceeds(obj.exists /\ fresh, StatusWritten)
          \/ CallFails(obj.exists /\ fresh, StatusWritten)
  /\ Return(pc = "retryError", Never)
  /\ UNCHANGED <<queueVars, now, edits, passVars, ghosts>>

\* After the loop: the pass is final when no subroutine asked for a requeue.
Conclude ==
  LET done == {g \in {inst.gen} : \A s \in Subs : ran[s] = g}
  IN
  /\ pc = "subroutine" /\ pos = N + 1
  /\ IF requeue
     THEN /\ condArr' = SetCond(condArr, ReadyCond, "False", inst.gen)
          /\ UNCHANGED inst
     ELSE /\ condArr' = MarkedReady(condArr, "True", inst.gen)
          /\ \E d \in Delays : inst' = Marked(inst, d)
  /\ pc' = CASE ~requeue /\ orig.deleting /\ Terminator # ""   -> "terminator"
             [] ~requeue /\ ~orig.deleting /\ Initializer # "" -> "initializer"
             [] OTHER                                          -> "status"
  /\ full' = full \cup done
  /\ UNCHANGED <<apiVars, queueVars, bounds, orig, fresh, pos, requeue, ret,
                 res, ran, gaveUp, owed, dropped, flipped>>

\* removeTerminator and removeInitializer: a status patch of one whole list,
\* in read-only mode too.
RemoveClaim(claim, claims, patched) ==
  /\ IF claim \notin claims
     THEN pc' = "status" /\ UNCHANGED <<apiVars, faults, inst, fresh, ret>>
     ELSE \/ /\ CallSucceeds(obj.exists, patched)
             /\ inst' = obj' /\ fresh' = TRUE
             /\ pc' = "status" /\ UNCHANGED ret
          \/ /\ CallFails(obj.exists, patched)
             /\ Return(TRUE, Never)
             /\ UNCHANGED <<inst, fresh>>
  /\ UNCHANGED <<queueVars, now, edits, orig, condArr, pos, requeue, ghosts>>

RemoveTerminator ==
  /\ pc = "terminator"
  /\ RemoveClaim(Terminator, inst.terms,
                 [obj EXCEPT !.terms = inst.terms \ {Terminator}])

RemoveInitializer ==
  /\ pc = "initializer"
  /\ RemoveClaim(Initializer, inst.inits,
                 [obj EXCEPT !.inits = inst.inits \ {Initializer}])

\* A mutation of Finish: RequeueAfter is not handed on.
FinishForGood == Return(FALSE, Never)

\* What Reconcile returns when all went well: the subroutines' RequeueAfter.
Finish == Return(FALSE, IF requeue THEN now ELSE Never)

\* Where Reconcile goes on from its status update with the instance o.
AfterStatus(o) ==
  IF HasSpread /\ ~o.deleting /\ o.refresh THEN pc' = "label" /\ UNCHANGED ret
  ELSE Finish

UpdateStatus ==
  LET ok == obj.exists /\ fresh IN
  /\ pc = "status"
  /\ IF ReadOnly \/ (inst.deleting /\ inst.fins = {}) \/ StatusEqual
     THEN AfterStatus(inst) /\ UNCHANGED <<apiVars, faults, inst>>
     ELSE \/ /\ CallSucceeds(ok, StatusWritten)
             /\ inst' = obj'
             /\ AfterStatus(inst')
          \/ /\ CallFails(ok, StatusWritten)
             /\ Return(TRUE, Never)
             /\ UNCHANGED inst
  /\ UNCHANGED <<queueVars, now, edits, orig, fresh, condArr, pos, requeue, ghosts>>

\* RemoveRefreshLabelIfExists and its patch.  A failure is handed to
\* HandleClientError as err, which is nil here: the pass returns success and
\* no requeue.
RemoveRefreshLabel ==
  /\ pc = "label"
  /\ \/ CallSucceeds(obj.exists, [obj EXCEPT !.refresh = FALSE]) /\ Finish
     \/ CallFails(obj.exists, [obj EXCEPT !.refresh = FALSE]) /\ Return(FALSE, Never)
  /\ UNCHANGED <<queueVars, now, edits, passVars, ghosts>>

-----------------------------------------------------------------------------
(* The work queue, the watch and the process.                               *)

Earlier(a, b) == IF a <= b THEN a ELSE b

\* controller-runtime: an error is rate limited, a positive RequeueAfter is
\* added after it, anything else is forgotten.
HandleResult ==
  /\ pc = "return"
  /\ wake' = Earlier(wake, IF ret.err THEN now ELSE ret.after)
  /\ pc' = "idle"
  /\ ret' = [err |-> FALSE, after |-> Never]
  /\ inst' = NewObject /\ orig' = NewObject /\ fresh' = FALSE
  /\ condArr' = NoConditions /\ pos' = 1 /\ requeue' = FALSE
  /\ ran' = [s \in Subs |-> 0]
  /\ UNCHANGED <<apiVars, queued, bounds, res, full, gaveUp, owed, dropped, flipped>>

FireTimer ==
  /\ wake <= now
  /\ wake' = Never /\ queued' = TRUE
  /\ UNCHANGED <<apiVars, bounds, pc, passVars, ret, ghosts>>

\* A watch event brings the cache up to date and queues the key.
Notify ==
  /\ ~synced
  /\ synced' = TRUE
  /\ cache' = IF Cached THEN obj ELSE cache
  /\ queued' = TRUE
  /\ UNCHANGED <<obj, wake, bounds, pc, passVars, ret, ghosts>>

\* The process dies and starts again: it lists the object and queues it.
Restart ==
  /\ Fault
  /\ pc' = "idle"
  /\ cache' = IF Cached THEN obj ELSE cache
  /\ synced' = TRUE
  /\ queued' = obj.exists /\ wake' = Never
  /\ ret' = [err |-> FALSE, after |-> Never]
  /\ inst' = NewObject /\ orig' = NewObject /\ fresh' = FALSE
  /\ condArr' = NoConditions /\ pos' = 1 /\ requeue' = FALSE
  /\ ran' = [s \in Subs |-> 0]
  /\ UNCHANGED <<obj, now, edits, res, full, gaveUp, owed, dropped, flipped>>

-----------------------------------------------------------------------------
(* The other actors.                                                        *)

Edit(o) ==
  /\ obj.exists
  /\ obj' = Reaped(o) /\ synced' = FALSE /\ fresh' = FALSE
  /\ UNCHANGED <<cache, queueVars, now, faults, pc, inst, orig, condArr, pos,
                 requeue, ret, ghosts>>

Budgeted == edits < MaxEdits /\ edits' = edits + 1

ChangeSpec == Budgeted /\ Edit([obj EXCEPT !.gen = @ + 1])

RequestRefresh == /\ HasSpread /\ Budgeted /\ ~obj.refresh
                  /\ Edit([obj EXCEPT !.refresh = TRUE])

\* Deletion raises the generation as well.
Delete == /\ ~obj.deleting /\ UNCHANGED edits
          /\ Edit([obj EXCEPT !.deleting = TRUE, !.gen = @ + 1])

HoldForeign == \E f \in Foreign : /\ Budgeted /\ ~obj.deleting /\ f \notin obj.fins
                                  /\ Edit([obj EXCEPT !.fins = @ \cup {f}])

ReleaseForeign == \E f \in Foreign : /\ f \in obj.fins /\ UNCHANGED edits
                                     /\ Edit([obj EXCEPT !.fins = @ \ {f}])

\* Other controllers take their own initializers and terminators off.
ReleaseClaim == \/ \E c \in obj.inits \ {Initializer} : /\ UNCHANGED edits
                     /\ Edit([obj EXCEPT !.inits = @ \ {c}])
                \/ \E c \in obj.terms \ {Terminator} : /\ UNCHANGED edits
                     /\ Edit([obj EXCEPT !.terms = @ \ {c}])

Tick == /\ HasSpread /\ now < MaxTime
        /\ now' = now + 1
        /\ UNCHANGED <<apiVars, queueVars, faults, edits, pc, passVars, ret, ghosts>>

-----------------------------------------------------------------------------
Init ==
  /\ obj = NewObject /\ cache = NewObject /\ synced = TRUE
  /\ queued = TRUE /\ wake = Never
  /\ now = 0 /\ faults = 0 /\ edits = 0
  /\ pc = "idle" /\ ret = [err |-> FALSE, after |-> Never]
  /\ inst = NewObject /\ orig = NewObject /\ fresh = FALSE
  /\ condArr = NoConditions /\ pos = 1 /\ requeue = FALSE
  /\ res = [s \in Subs |-> FALSE] /\ ran = [s \in Subs |-> 0]
  /\ full = {} /\ gaveUp = {} /\ owed = {} /\ dropped = {} /\ flipped = FALSE

Worker ==
  \/ Begin \/ SkipReconcile \/ AddFinalizers \/ PrepareContext
  \/ RunSubroutine \/ RemoveFinalizers \/ UpdateStatusAfterError
  \/ Conclude \/ RemoveTerminator \/ RemoveInitializer
  \/ UpdateStatus \/ RemoveRefreshLabel \/ HandleResult

Others == \/ ChangeSpec \/ RequestRefresh \/ Delete
          \/ HoldForeign \/ ReleaseForeign \/ ReleaseClaim

Next == Worker \/ FireTimer \/ Notify \/ Restart \/ Others \/ Tick

Spec == Init /\ [][Next]_vars

\* The worker, the watch and the delaying queue keep running and other
\* controllers let go of an object in deletion; nobody has to edit or delete.
Fairness ==
  /\ WF_vars(Worker) /\ WF_vars(FireTimer) /\ WF_vars(Notify)
  /\ WF_vars(ReleaseForeign /\ obj.deleting) /\ WF_vars(Tick)

FairSpec == Spec /\ Fairness

-----------------------------------------------------------------------------
\* Every variable has its type; Never bounds the next reconcile time, so that a
\* spread delay never exceeds the maximum, and removeFinalizerIfNeeded has a
\* current subroutine.
TypeOK ==
  /\ obj \in Objects /\ cache \in Objects /\ inst \in Objects /\ orig \in Objects
  /\ synced \in BOOLEAN /\ queued \in BOOLEAN /\ fresh \in BOOLEAN
  /\ requeue \in BOOLEAN /\ flipped \in BOOLEAN
  /\ now \in 0..MaxTime /\ wake \in 0..Never
  /\ faults \in 0..MaxFaults /\ edits \in 0..MaxEdits
  /\ pc \in {"idle", "skip", "finalizers", "prepare", "subroutine", "unfinalize",
            "retryError", "finalError", "terminator", "initializer", "status",
            "label", "return"}
  /\ condArr \in Conditions
  /\ pos \in 1..(N + 1) /\ (pc = "unfinalize" => pos \in Subs)
  /\ ret \in [err : BOOLEAN, after : 0..Never]
  /\ res \in [Subs -> BOOLEAN] /\ ran \in [Subs -> 0..(MaxEdits + 2)]
  /\ full \subseteq Generations /\ gaveUp \subseteq Generations
  /\ owed \subseteq Subs /\ dropped \subseteq owed

\* The subroutines whose finalizers hold the object for them alone.
Guarded ==
  {s \in Subs \ Terminators :
     /\ ~ReadOnly /\ Finalizers[s] # {}
     /\ \A t \in Subs \ {s} : Finalizers[s] \cap Finalizers[t] = {}}

\* What a guarded subroutine may have created is covered by its finalizers: they
\* are on the object before it runs (lifecycle.go:70) and come off only after a
\* Finalize that asked for nothing more (lifecycle.go:217-219), whatever edits,
\* lost responses and restarts come between.
Covered == \A s \in Guarded : res[s] => obj.exists /\ Finalizers[s] \subseteq obj.fins

\* The same with a lagging cache, except once a pass was told of the deletion
\* by the response of AddFinalizersIfNeeded's patch: it then finalizes while
\* the cache may still show the object as it was before.
CoveredUnlessFlipped == flipped \/ Covered

\* The object as its subroutines see it: where it is on its way, for whom it
\* is held, and who may have left something outside.
Phase == CASE ~obj.exists                 -> "gone"
           [] obj.exists /\ obj.deleting  -> "deleting"
           [] obj.exists /\ ~obj.deleting -> "live"
HeldFor == {s \in Guarded : Finalizers[s] \subseteq obj.fins}
Made == {s \in Guarded : res[s]}

Contract == INSTANCE ResourceContract WITH
  Owners <- Guarded, Lagging <- Cached,
  phase <- Phase, held <- HeldFor, made <- Made, excused <- flipped

\* Reconcile, its rivals and the API server implement the contract: finalizers
\* come on all at once and on a live object only, they come off in deletion
\* only and after the clean-up, and nothing is made once they are off.
HonoursContract == Contract!Spec

\* The observed generation is one that all subroutines succeeded on in a single
\* pass, or one that a pass gave up on: patches refresh the instance in the
\* middle of a pass, and none of them may make a newer generation look processed.
ObservedMeansProcessed == obj.obs \in {0} \cup full \cup gaveUp

\* Ready=True for a generation says that one pass took every subroutine through
\* that generation, and no subroutine's own condition contradicts it.
ReadyIsHonest ==
  (obj.conds[ReadyCond].status = "True" /\ ~obj.deleting) =>
     /\ obj.conds[ReadyCond].gen \in full
     /\ \A s \in Subs : obj.conds[<<s, "Ready">>].status = "True"

\* A workspace leaves initialization only after a pass in which every subroutine
\* succeeded (lifecycle.go:156).
InitializerHeld ==
  Initializer \in Claims0 \ obj.inits => full # {} \/ obj.deleting

\* A workspace in termination is let go only when the terminating subroutines
\* have torn down what they made, and they do not make it again.
TerminatorHeld ==
  Terminator \in Claims0 \ obj.terms => \A s \in Terminators : ~res[s]

\* The subroutines whose request is to be met: it was not dropped.
Waiting == owed \ dropped

\* A subroutine that asked to be run again, by a RequeueAfter or an error, is not
\* forgotten, whatever subroutines after it end well or fail for now, whichever
\* writes fail, and after a restart: the key is queued, timed or about to be
\* notified.  A final error, of a later subroutine or of PrepareContextFunc, is
\* the exception: Reconcile then returns an empty result (lifecycle.go:123-125)
\* and the request is lost; dropped keeps it on record.
RequeueHonoured ==
  (pc = "idle" /\ obj.exists /\ Waiting # {}) => queued \/ wake # Never \/ ~synced

\* The spreader skips a pass only if no subroutine waits for one (spread.go:44,
\* "Completed reconciliation, no processing needed").
SkipOnlyWhenComplete == pc = "skip" => owed = {}

\* A pass that removes the refresh label and reports success has removed it.
LabelGoneOnSuccess ==
  [][(pc = "label" /\ pc' = "return" /\ ~ret'.err) => ~obj'.refresh]_vars

\* "In read-only mode, the controller will not update the status".
ReadOnlyKeepsStatus == [][(ReadOnly /\ Worker) => Status(obj') = Status(obj)]_vars

\* An object in deletion goes away once the subroutines finalize it.
DeletionCompletes == obj.deleting ~> ~obj.exists

\* The last generation is processed, or given up on, or the object is deleted.
Converges == <>[](obj.gen = obj.obs \/ obj.gen \in gaveUp \/ obj.deleting)

\* The workspace gets out of initialization.
Initializes == <>(Initializer \notin obj.inits \/ gaveUp # {} \/ obj.deleting)

\* When nobody edits the object any more the controller comes to rest: its own
\* writes, timers and errors do not keep it busy for ever.
Quiesces == <>[](pc = "idle" /\ ~queued)
=============================================================================
