------------------------------ MODULE Operator ------------------------------
(***************************************************************************)
(* An operator's process: a lifecycle manager is set up, its controller     *)
(* works on a queue behind the rate limiter and a filter on the debug label *)
(* of the objects, until the process shuts down.  Several controllers may   *)
(* watch the same objects, each with a label value of its own; this is one  *)
(* of them, and the others are seen as changes of the label.                *)
(***************************************************************************)
EXTENDS RateLimiter, Shutdown, Managers

CONSTANTS
  Cases,   \* setups
  Labels   \* values of the debug label; "" stands for an object without it

\* The queue is the rate limiter's in all of them.
ASSUME CasesAssumption == Cases \subseteq {s \in Setups : "limiter" \in s.options}

VARIABLES
  setup,   \* how the manager was put together
  phase,   \* whether the controller is started
  listed,  \* the objects the informers have told of
  mine,    \* the debugLabelValue this controller is set up with, "" by default
  label,   \* label[i]: the value of i's debug label
  due      \* due[i]: i was created or changed with the label of this controller,
           \* and no pass of i began since (history)

queueVars == vars
operatorVars == <<queueVars, shutdownVars, setup, phase, listed, mine,
                  label, due>>

OperatorInit ==
  /\ Init /\ InitShutdown
  /\ setup \in Cases /\ phase = "built"
  /\ listed = {}
  /\ mine \in Labels /\ label \in [Items -> Labels]
  /\ due = [i \in Items |-> FALSE]

-----------------------------------------------------------------------------
(* The controller.                                                          *)

\* SetupWithManager and the start of the manager.
SetUp ==
  /\ phase = "built" /\ main = "running"
  /\ phase' = IF SetupRefuses(setup) THEN "refused" ELSE "started"
  /\ UNCHANGED <<queueVars, shutdownVars, setup, listed, mine, label, due>>

Working == phase = "started" /\ main = "running"

\* Two mutations of Digested: the filter looks at the old object, and the empty
\* value takes every object, as src/controller/README.md:131 has it.
DigestedByOld(old, new) == old = mine
DigestedAllIfEmpty(old, new) == mine \in {"", new}

\* DebugResourcesBehaviourPredicate, for an object whose label was old and is new:
\* the values must be equal, so that the empty one takes the objects without the
\* label and no others (filter.go:14 says so too; the README promises all).
Digested(old, new) == new = mine

\* What the filter lets through is added to the queue, which may hold it already.
Filtered(i, old, new) ==
  IF Digested(old, new) /\ i \notin queued THEN Event(i) ELSE UNCHANGED queueVars

\* An object that is there at the start, or is created.
Appear(i) ==
  /\ Working /\ i \notin listed
  /\ listed' = listed \cup {i}
  /\ Filtered(i, label[i], label[i])
  /\ due' = [due EXCEPT ![i] = label[i] = mine]
  /\ UNCHANGED <<shutdownVars, setup, phase, mine, label>>

\* An object changes, its label too or not, or is deleted.
Change(i) ==
  /\ Working /\ i \in listed
  /\ \E new \in Labels :
       /\ label' = [label EXCEPT ![i] = new]
       /\ Filtered(i, label[i], new)
       /\ due' = [due EXCEPT ![i] = new = mine]
  /\ UNCHANGED <<shutdownVars, setup, phase, listed, mine>>

TimerExpires(i) ==
  /\ Working /\ Expire(i)
  /\ UNCHANGED <<shutdownVars, setup, phase, listed, mine, label, due>>

\* A worker takes the key while Done is open.
Begin(i) ==
  /\ Working /\ cause = Open
  /\ Take(i)
  /\ due' = [due EXCEPT ![i] = FALSE]
  /\ UNCHANGED <<shutdownVars, setup, phase, listed, mine, label>>

\* A pass ends, in an error too if the cluster of the request is not known.
End(i) ==
  /\ Alive
  /\ Fail(i) \/ Succeed(i) \/ Again(i)
  /\ UNCHANGED <<shutdownVars, setup, phase, listed, mine, label, due>>

-----------------------------------------------------------------------------
(* The process.                                                             *)

\* The main goroutine returns when the manager does, which waits for the workers.
MainMustReturn ==
  MainReturns /\ (phase = "refused" \/ (cause # Open /\ running = {}))

\* It may return, or panic, for other reasons.
Shuts ==
  /\ \/ Signal \/ CancelOutside \/ Listen
     \/ MainReturns \/ StopCancels \/ StopNotification \/ Exit
     \/ running = {} /\ WorkStops
  /\ UNCHANGED <<queueVars, setup, phase, listed, mine, label, due>>

TimePasses ==
  /\ Tick /\ ShutdownTick
  /\ UNCHANGED <<setup, phase, listed, mine, label, due>>

OperatorNext ==
  \/ SetUp \/ Shuts \/ TimePasses
  \/ \E i \in Items :
       Appear(i) \/ Change(i) \/ TimerExpires(i) \/ Begin(i) \/ End(i)

\* Goroutines, workers, timers and the clock go on.  No signal has to come, no
\* object has to change and no pass has to succeed.
OperatorFairness ==
  /\ WF_operatorVars(SetUp) /\ WF_operatorVars(TimePasses)
  /\ WF_operatorVars(Shuts /\ Listen)
  /\ WF_operatorVars(Shuts /\ MainMustReturn)
  /\ WF_operatorVars(Shuts /\ (StopCancels \/ StopNotification \/ Exit))
  /\ WF_operatorVars(Shuts /\ WorkStops)
  /\ \A i \in Items : /\ WF_operatorVars(Appear(i)) /\ WF_operatorVars(TimerExpires(i))
                      /\ WF_operatorVars(Begin(i)) /\ WF_operatorVars(End(i))

OperatorSpec == OperatorInit /\ [][OperatorNext]_operatorVars

FairOperator == OperatorSpec /\ OperatorFairness

-----------------------------------------------------------------------------
\* Every variable has its type, the queue's and the limiter's among them.
OperatorTypeOK ==
  /\ TypeOK /\ ShutdownTypeOK
  /\ setup \in Cases /\ phase \in {"built", "refused", "started"}
  /\ listed \subseteq Items
  /\ mine \in Labels /\ label \in [Items -> Labels] /\ due \in [Items -> BOOLEAN]

\* No event is lost to a pass under way or to a change of the label: while an
\* object that changed under this controller's label waits for a pass that begins
\* after the change, its key is in the queue, whatever passes and timers there are.
ChangesQueued == \A i \in Items : due[i] => i \in queued

\* A process that ends by itself has given all that watches its context the time
\* to stop: whatever ends the main goroutine, and whoever cancels first.
StoppedInTime == (main = "over" /\ ~killed) => work = Stopped

\* A signal ends the process, also one that comes before the goroutine listens,
\* or together with a cancellation.
SignalHeeded == told ~> ~Alive

\* An item that no longer succeeds is in the end retried at the longest delay,
\* as long as the operator runs: it does not stay in the static window.
KeepsBackingOff ==
  \A i \in Items : <>(main # "running" \/ cause # Open)
                   \/ []<>(last[i] = None) \/ <>[](last[i] = MaxBackoff)

\* An object that is created or changed with the label of this controller, or
\* without a label if the controller's value is empty, is processed by a pass that
\* begins later, unless the label changes again or the operator shuts down.
TakenOver ==
  \A i \in Items : due[i] ~> ~due[i] \/ main # "running" \/ cause # Open

\* An object whose label differs for good from the value of this controller is no
\* longer processed by it, once no timer of an earlier pass is left.  That holds of
\* the empty value too: a labelled object is then left to the others, contrary to
\* what src/controller/README.md:131 says of it.
HandedOver ==
  \A i \in Items :
    <>[](Alive /\ label[i] # mine /\ timer[i] = None) => <>[](i \notin running)
=============================================================================
