--------------------------- MODULE OperatorProofs ---------------------------
(* The operator's process, for any items, times and setups: its queue is the *)
(* one of RateLimiter, no change of an object is lost, and the end comes in   *)
(* time.                                                                      *)
EXTENDS Operator, RateLimiterProofs

\* What a step does to the queue and to the process: one of them changes, or
\* time passes for both.
LEMMA StepParts ==
  ASSUME [OperatorNext]_operatorVars
  PROVE  \/ UNCHANGED operatorVars
         \/ SetUp
         \/ Shuts
         \/ TimePasses
         \/ [Next]_vars /\ UNCHANGED shutdownVars
  <1>1. CASE UNCHANGED operatorVars \/ SetUp \/ Shuts \/ TimePasses
    BY <1>1
  <1>2. ASSUME NEW i \in Items, Appear(i) \/ Change(i)
        PROVE  [Next]_vars /\ UNCHANGED shutdownVars
    <2>1. PICK old \in {label[i]}, new \in Labels \cup {label[i]} : Filtered(i, old, new)
      BY <1>2 DEF Appear, Change
    <2>2. Event(i) \/ UNCHANGED vars
      BY <2>1 DEF Filtered, queueVars
    <2>3. QED
      BY <1>2, <2>2 DEF Appear, Change, Next
  <1>3. ASSUME NEW i \in Items, TimerExpires(i) \/ Begin(i) \/ End(i)
        PROVE  [Next]_vars /\ UNCHANGED shutdownVars
    BY <1>3 DEF TimerExpires, Begin, End, Next
  <1>4. QED
    BY <1>1, <1>2, <1>3 DEF OperatorNext

\* The queue and the limiter of an operator behave as RateLimiter says: the
\* filter, the setup and the end of the process only leave out steps.
THEOREM OperatorUsesLimiter == OperatorSpec => Spec
  <1>1. OperatorInit => Init
    BY DEF OperatorInit
  <1>2. [OperatorNext]_operatorVars => [Next]_vars
    <2> SUFFICES ASSUME [OperatorNext]_operatorVars PROVE [Next]_vars
      OBVIOUS
    <2>1. CASE UNCHANGED operatorVars
      BY <2>1 DEF operatorVars, queueVars
    <2>2. CASE SetUp \/ Shuts
      BY <2>2 DEF SetUp, Shuts, queueVars
    <2>3. CASE TimePasses
      BY <2>3 DEF TimePasses, Next
    <2>4. QED
      BY <2>1, <2>2, <2>3, StepParts
  <1>3. QED
    BY <1>1, <1>2, PTL DEF OperatorSpec, Spec

\* The delays of an operator do not shrink: what a queue with any events, takes
\* and timers may do, this one does.
THEOREM OperatorNeverShrinks ==
  ASSUME StaticDelay <= MaxBackoff PROVE OperatorSpec => NeverShrinks
  BY OperatorUsesLimiter, DelaysNeverShrink, PTL

-----------------------------------------------------------------------------
\* The variables that Operator adds keep their types.
OwnTypes ==
  /\ setup \in Cases /\ phase \in {"built", "refused", "started"}
  /\ listed \subseteq Items
  /\ mine \in Labels /\ label \in [Items -> Labels] /\ due \in [Items -> BOOLEAN]

LEMMA OwnTypesHold == OperatorSpec => []OwnTypes
  <1>1. OperatorInit => OwnTypes
    BY DEF OperatorInit, OwnTypes
  <1>2. OwnTypes /\ [OperatorNext]_operatorVars => OwnTypes'
    <2> SUFFICES ASSUME OwnTypes, [OperatorNext]_operatorVars PROVE OwnTypes'
      OBVIOUS
    <2>1. CASE UNCHANGED operatorVars
      BY <2>1 DEF operatorVars, OwnTypes
    <2>2. CASE SetUp
      BY <2>2 DEF SetUp, OwnTypes
    <2>3. CASE Shuts \/ TimePasses
      BY <2>3 DEF Shuts, TimePasses, OwnTypes
    <2>4. ASSUME NEW i \in Items, Appear(i) PROVE OwnTypes'
      <3>1. (label[i] = mine) \in BOOLEAN
        OBVIOUS
      <3>2. QED
        BY <2>4, <3>1 DEF Appear, OwnTypes
    <2>5. ASSUME NEW i \in Items, Change(i) PROVE OwnTypes'
      <3>1. PICK new \in Labels :
              /\ label' = [label EXCEPT ![i] = new]
              /\ due' = [due EXCEPT ![i] = new = mine]
        BY <2>5 DEF Change
      <3>2. (new = mine) \in BOOLEAN
        OBVIOUS
      <3>3. QED
        BY <2>5, <3>1, <3>2 DEF Change, OwnTypes
    <2>6. ASSUME NEW i \in Items, TimerExpires(i) \/ End(i) PROVE OwnTypes'
      BY <2>6 DEF TimerExpires, End, OwnTypes
    <2>7. ASSUME NEW i \in Items, Begin(i) PROVE OwnTypes'
      BY <2>7 DEF Begin, OwnTypes
    <2>8. QED
      BY <2>1, <2>2, <2>3, <2>4, <2>5, <2>6, <2>7 DEF OperatorNext
  <1>3. QED
    BY <1>1, <1>2, PTL DEF OperatorSpec

\* An object that changed under the controller's label keeps its key in the queue
\* until a pass begins, for any items, labels, values and setups: neither a pass
\* under way, nor its end, nor a timer takes the key off.
THEOREM OperatorKeepsChanges == OperatorSpec => []ChangesQueued
  <1>1. OperatorInit => ChangesQueued
    BY DEF OperatorInit, ChangesQueued
  <1>2. ChangesQueued /\ OwnTypes /\ [OperatorNext]_operatorVars => ChangesQueued'
    <2> SUFFICES ASSUME ChangesQueued, OwnTypes, [OperatorNext]_operatorVars
                 PROVE  ChangesQueued'
      OBVIOUS
    <2>1. CASE UNCHANGED operatorVars \/ SetUp \/ Shuts \/ TimePasses
      BY <2>1 DEF operatorVars, queueVars, vars, SetUp, Shuts, TimePasses, Tick, ChangesQueued
    <2>2. ASSUME NEW i \in Items, NEW new, Filtered(i, label[i], new),
                 due' = [due EXCEPT ![i] = new = mine]
          PROVE  ChangesQueued'
      <3>1. \A j \in Items \ {i} : due'[j] = due[j]
        BY <2>2 DEF OwnTypes
      <3>2. due'[i] => new = mine
        BY <2>2 DEF OwnTypes
      <3>3. queued \subseteq queued'
        BY <2>2 DEF Filtered, Event, queueVars, vars
      <3>4. new = mine => i \in queued'
        BY <2>2 DEF Filtered, Digested, Event, queueVars, vars
      <3>5. QED
        BY <3>1, <3>2, <3>3, <3>4 DEF ChangesQueued
    <2>3. ASSUME NEW i \in Items, Appear(i) \/ Change(i) PROVE ChangesQueued'
      BY <2>2, <2>3 DEF Appear, Change
    <2>4. ASSUME NEW i \in Items, TimerExpires(i) \/ End(i) PROVE ChangesQueued'
      BY <2>4 DEF TimerExpires, Expire, End, Fail, Succeed, Again, Forget, ChangesQueued
    <2>5. ASSUME NEW i \in Items, Begin(i) PROVE ChangesQueued'
      BY <2>5 DEF Begin, Take, ChangesQueued, OwnTypes
    <2>6. QED
      BY <2>1, <2>3, <2>4, <2>5 DEF OperatorNext
  <1>3. QED
    BY <1>1, <1>2, OwnTypesHold, PTL DEF OperatorSpec

-----------------------------------------------------------------------------
\* Once stop has canceled, Done is closed; while the shutdown function waits,
\* there is more time left to wait than to stop.
InTime ==
  /\ ShutdownTypeOK
  /\ main \in {"canceled", "waiting"} => cause # Open
  /\ main \in {"running", "closing", "canceled"} => wait = Timeout
  /\ main = "waiting" => work < wait \/ work = Stopped
  /\ StoppedInTime

\* Every step of the process keeps it.
LEMMA ShutdownInTime ==
  ASSUME InTime,
         \/ Signal \/ CancelOutside \/ Listen
         \/ MainReturns \/ StopCancels \/ StopNotification \/ Exit
         \/ WorkStops \/ ShutdownTick \/ UNCHANGED shutdownVars
  PROVE  InTime'
  <1> USE ShutdownAssumption DEF InTime, ShutdownTypeOK, StoppedInTime, shutdownVars,
                                 signalVars, Open, Stopped
  <1>1. CASE UNCHANGED shutdownVars
    BY <1>1
  <1>2. CASE Signal
    BY <1>2 DEF Signal, Alive, Accepts
  <1>3. CASE CancelOutside
    BY <1>3 DEF CancelOutside, Alive, Cancel
  <1>4. CASE Listen
    BY <1>4 DEF Listen, Alive, Cancel
  <1>5. CASE MainReturns
    BY <1>5 DEF MainReturns
  <1>6. CASE StopCancels
    BY <1>6 DEF StopCancels, Cancel
  <1>7. CASE StopNotification
    <2>1. /\ UNCHANGED <<cause, listener, ch, wait, work, told, killed>>
          /\ main = "canceled" /\ main' = "waiting" /\ notified' \in BOOLEAN
      BY <1>7 DEF StopNotification
    <2>2. work < wait
      BY <2>1
    <2>3. QED
      BY <2>1, <2>2
  <1>8. CASE Exit
    BY <1>8 DEF Exit
  <1>9. CASE WorkStops
    BY <1>9 DEF WorkStops, Alive
  <1>10. CASE ShutdownTick
    BY <1>10 DEF ShutdownTick, Alive
  <1>11. QED
    BY <1>1, <1>2, <1>3, <1>4, <1>5, <1>6, <1>7, <1>8, <1>9, <1>10

\* The process keeps it from its start.
LEMMA TimeHolds == OperatorSpec => []InTime
  <1>1. OperatorInit => InTime
    <2> SUFFICES ASSUME InitShutdown PROVE InTime
      BY DEF OperatorInit
    <2>1. ch \in BOOLEAN /\ notified \in BOOLEAN /\ told \in BOOLEAN /\ killed \in BOOLEAN
      BY DEF InitShutdown
    <2>2. main = "running" /\ wait = Timeout /\ work = WorkTime
      BY DEF InitShutdown
    <2>3. cause \in {Open, "parent"} /\ listener \in {"starting", "gone"}
      BY DEF InitShutdown
    <2>4. QED
      BY <2>1, <2>2, <2>3, ShutdownAssumption
         DEF InTime, ShutdownTypeOK, StoppedInTime, Open, Stopped
  <1>2. InTime /\ [OperatorNext]_operatorVars => InTime'
    <2> SUFFICES ASSUME InTime, [OperatorNext]_operatorVars PROVE InTime'
      OBVIOUS
    <2>1. \/ Shuts \/ TimePasses \/ UNCHANGED shutdownVars
      BY StepParts DEF SetUp, operatorVars
    <2>2. QED
      BY <2>1, ShutdownInTime DEF Shuts, TimePasses
  <1>3. QED
    BY <1>1, <1>2, PTL DEF OperatorSpec

\* A process that was not killed ends with nothing at work, for any timeout
\* longer than the work takes to stop.
THEOREM OperatorStopsInTime == OperatorSpec => []StoppedInTime
  <1>1. InTime => StoppedInTime
    BY DEF InTime
  <1>2. QED
    BY <1>1, TimeHolds, PTL

-----------------------------------------------------------------------------
\* Every variable keeps its type, for any cases that are setups.
THEOREM OperatorTypes == OperatorSpec => []OperatorTypeOK
  <1>1. OwnTypes /\ TypeOK /\ InTime => OperatorTypeOK
    BY DEF OwnTypes, InTime, OperatorTypeOK
  <1>2. QED
    BY <1>1, OwnTypesHold, OperatorUsesLimiter, LimiterTypes, TimeHolds, PTL
=============================================================================
