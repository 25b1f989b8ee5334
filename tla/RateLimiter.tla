---------------------------- MODULE RateLimiter ----------------------------
(***************************************************************************)
(* StaticThenExponentialRateLimiter of controller/lifecycle/ratelimiter,    *)
(* between the workers of a controller and its work queue: a failed pass    *)
(* asks When how long to wait, a good one calls Forget.  The queue never    *)
(* hands one item to two workers, so the calls for an item do not overlap.  *)
(* Times are relative: how long ago the first attempt was, how long a timer *)
(* still runs.                                                              *)
(***************************************************************************)
EXTENDS Integers

CONSTANTS
  Items,         \* the keys of the work queue
  StaticDelay,   \* cfg.StaticRequeueDelay
  StaticWindow,  \* cfg.StaticWindow
  InitialBackoff,\* cfg.ExponentialInitialBackoff
  MaxBackoff,    \* cfg.ExponentialMaxBackoff, which validate does not look at
  RequeueAfter   \* when a good pass that asks for it runs again

\* Config.validate: the exponential part starts where the static one ends, and
\* one static delay fits in the window.  It does not look at the maximum.
Validate ==
  /\ StaticDelay <= InitialBackoff
  /\ StaticDelay <= StaticWindow

ASSUME ValidConfig ==
  /\ {StaticDelay, StaticWindow, InitialBackoff, MaxBackoff, RequeueAfter} \subseteq Nat
  /\ Validate

None == -1

Smaller(a, b) == IF a <= b THEN a ELSE b

VARIABLES
  age,      \* age[i]: time since staticAttempts[i], or None; counted up to
            \* just beyond the window
  backoff,  \* backoff[i]: what the exponential limiter will answer next
  queued,   \* the items that wait for a worker
  running,  \* the items a worker has
  timer,    \* timer[i]: when the delaying queue adds i, or None
  last      \* last[i]: the last delay since Forget, or None (history)

vars == <<age, backoff, queued, running, timer, last>>

FirstBackoff == Smaller(InitialBackoff, MaxBackoff)

Init ==
  /\ age = [i \in Items |-> None]
  /\ backoff = [i \in Items |-> FirstBackoff]
  /\ queued = {} /\ running = {}
  /\ timer = [i \in Items |-> None]
  /\ last = [i \in Items |-> None]

-----------------------------------------------------------------------------
\* A mutation of AgeAfter: every attempt is recorded as the first.
AgeRestarted(i) == 0

\* staticAttempts[item] after When: the first attempt is recorded, and kept.
AgeAfter(i) == IF age[i] = None THEN 0 ELSE age[i]

InWindow(i) == age[i] <= StaticWindow

\* What When answers.
Delay(i) == IF InWindow(i) THEN StaticDelay ELSE backoff[i]

\* Two mutations of Doubled: no limit, and no growth.
DoubledForEver(d) == 2 * d
DoubledNever(d) == d

\* The exponential limiter doubles its answer up to the maximum.
Doubled(d) == Smaller(2 * d, MaxBackoff)

\* The timer of the delaying queue: an earlier one stays.
Sooner(i, d) == timer' = [timer EXCEPT ![i] = IF @ = None THEN d ELSE Smaller(@, d)]

\* AddRateLimited: When, and a timer.
Fail(i) ==
  /\ i \in running
  /\ running' = running \ {i}
  /\ Sooner(i, Delay(i))
  /\ age' = [age EXCEPT ![i] = AgeAfter(i)]
  /\ backoff' = [backoff EXCEPT ![i] = IF InWindow(i) THEN @ ELSE Doubled(@)]
  /\ last' = [last EXCEPT ![i] = Delay(i)]
  /\ UNCHANGED queued

\* Forget, in both limiters.
Forget(i) ==
  /\ i \in running
  /\ running' = running \ {i}
  /\ age' = [age EXCEPT ![i] = None]
  /\ backoff' = [backoff EXCEPT ![i] = FirstBackoff]
  /\ last' = [last EXCEPT ![i] = None]
  /\ UNCHANGED queued

Succeed(i) == Forget(i) /\ UNCHANGED timer

\* A good pass that asks to run again: Forget, then AddAfter.
Again(i) == Forget(i) /\ Sooner(i, RequeueAfter)

-----------------------------------------------------------------------------
(* The work queue and the clock.                                            *)

Take(i) == /\ i \in queued /\ i \notin running
           /\ queued' = queued \ {i} /\ running' = running \cup {i}
           /\ UNCHANGED <<age, backoff, timer, last>>

Expire(i) == /\ timer[i] = 0
             /\ timer' = [timer EXCEPT ![i] = None]
             /\ queued' = queued \cup {i}
             /\ UNCHANGED <<age, backoff, running, last>>

\* A watch event does not wait for the timer.
Event(i) == /\ i \notin queued
            /\ queued' = queued \cup {i}
            /\ UNCHANGED <<age, backoff, running, timer, last>>

Older(a) == IF a = None THEN None ELSE Smaller(a + 1, StaticWindow + 1)

Tick == /\ age' = [i \in Items |-> Older(age[i])]
        /\ timer' = [i \in Items |-> IF timer[i] > 0 THEN timer[i] - 1 ELSE timer[i]]
        /\ UNCHANGED <<backoff, queued, running, last>>

Next == \/ \E i \in Items : Fail(i) \/ Succeed(i) \/ Again(i) \/ Take(i) \/ Expire(i) \/ Event(i)
        \/ Tick

Spec == Init /\ [][Next]_vars

-----------------------------------------------------------------------------
Delays == {None} \cup 0..StaticDelay \cup 0..MaxBackoff \cup 0..RequeueAfter

\* Every variable has its type; no delay exceeds the larger of the two limits.
TypeOK ==
  /\ age \in [Items -> None..(StaticWindow + 1)]
  /\ backoff \in [Items -> 0..MaxBackoff]
  /\ queued \subseteq Items /\ running \subseteq Items
  /\ timer \in [Items -> Delays] /\ last \in [Items -> Delays]

NotShorter ==
  \A i \in Items : (last[i] # None /\ last'[i] # None) => last'[i] >= last[i]

\* An item that goes on failing never waits less than it did before, across the
\* change from the static to the exponential limiter and whatever events make
\* it run early.
NeverShrinks == [][NotShorter]_vars
=============================================================================
