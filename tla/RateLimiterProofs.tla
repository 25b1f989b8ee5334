------------------------- MODULE RateLimiterProofs -------------------------
(* The delays of RateLimiter, for any items, delays and windows.             *)
EXTENDS RateLimiter, TLAPS

\* The numbers behind Delay, Doubled and AgeAfter.
LEMMA DelayFacts ==
  ASSUME TypeOK, NEW i \in Items
  PROVE  /\ Delay(i) \in 0..StaticDelay \cup 0..MaxBackoff
         /\ Doubled(backoff[i]) \in 0..MaxBackoff /\ backoff[i] <= Doubled(backoff[i])
         /\ AgeAfter(i) \in 0..(StaticWindow + 1)
         /\ InWindow(i) => AgeAfter(i) <= StaticWindow
         /\ ~InWindow(i) => AgeAfter(i) = age[i]
  <1>1. backoff[i] \in 0..MaxBackoff /\ age[i] \in None..(StaticWindow + 1)
    BY DEF TypeOK
  <1>2. QED
    BY <1>1, ValidConfig DEF Validate, Delay, Doubled, Smaller, AgeAfter, InWindow, None

\* The first exponential delay and the time of an older attempt.
LEMMA StartFacts ==
  /\ FirstBackoff \in 0..MaxBackoff /\ RequeueAfter \in Delays
  /\ None \in None..(StaticWindow + 1) /\ None \in Delays
  /\ \A a \in None..(StaticWindow + 1) :
        Older(a) \in None..(StaticWindow + 1) /\ (a # None => a <= Older(a))
  /\ \A d \in Delays : d > 0 => d - 1 \in Delays
  BY ValidConfig DEF Validate, FirstBackoff, Smaller, None, Delays, Older

\* The timer of an item, which an earlier one keeps.
LEMMA SoonerTypes ==
  ASSUME TypeOK, NEW i \in Items, NEW d \in Delays, Sooner(i, d)
  PROVE  timer' \in [Items -> Delays]
  <1>1. (IF timer[i] = None THEN d ELSE Smaller(timer[i], d)) \in Delays
    BY DEF TypeOK, Smaller
  <1>2. QED
    BY <1>1 DEF Sooner, TypeOK

\* A failed pass keeps the types.
LEMMA FailTypes ==
  ASSUME TypeOK, NEW i \in Items, Fail(i)
  PROVE  TypeOK'
  <1>1. /\ age' = [age EXCEPT ![i] = AgeAfter(i)]
        /\ last' = [last EXCEPT ![i] = Delay(i)]
        /\ running' = running \ {i} /\ UNCHANGED queued
    BY DEF Fail
  <1>2. Delay(i) \in Delays /\ AgeAfter(i) \in None..(StaticWindow + 1)
    BY DelayFacts, ValidConfig DEF Validate, Delays, None
  <1>3. backoff' \in [Items -> 0..MaxBackoff]
    BY DelayFacts DEF Fail, TypeOK
  <1>4. timer' \in [Items -> Delays]
    BY <1>2, SoonerTypes DEF Fail
  <1>5. QED
    BY <1>1, <1>2, <1>3, <1>4 DEF TypeOK

\* Every step keeps the types.
LEMMA StepTypes ==
  ASSUME TypeOK, [Next]_vars
  PROVE  TypeOK'
  <1>1. CASE UNCHANGED vars
    BY <1>1 DEF vars, TypeOK
  <1>2. ASSUME NEW i \in Items, Fail(i) PROVE TypeOK'
    BY <1>2, FailTypes
  <1>3. ASSUME NEW i \in Items, Succeed(i) \/ Again(i) PROVE TypeOK'
    <2>1. timer' \in [Items -> Delays]
      BY <1>3, StartFacts, SoonerTypes DEF Succeed, Again, TypeOK
    <2>2. Forget(i)
      BY <1>3 DEF Succeed, Again
    <2>3. QED
      BY <2>1, <2>2, StartFacts DEF Forget, TypeOK
  <1>4. ASSUME NEW i \in Items, Take(i) \/ Expire(i) \/ Event(i) PROVE TypeOK'
    BY <1>4, StartFacts DEF Take, Expire, Event, TypeOK
  <1>5. CASE Tick
    BY <1>5, StartFacts DEF Tick, TypeOK
  <1>6. QED
    BY <1>1, <1>2, <1>3, <1>4, <1>5 DEF Next

\* The types, and with them the bound on every delay.
THEOREM LimiterTypes == Spec => []TypeOK
  <1>1. Init => TypeOK
    BY StartFacts DEF Init, TypeOK
  <1>2. QED
    BY <1>1, StepTypes, PTL DEF Spec

-----------------------------------------------------------------------------
\* An item in its static window has only had static delays, and none was longer
\* than the one the exponential limiter will answer next.
DelaysOK ==
  \A i \in Items : last[i] # None =>
    /\ age[i] # None
    /\ age[i] <= StaticWindow => last[i] = StaticDelay
    /\ StaticDelay <= last[i] /\ last[i] <= backoff[i]

\* All backoffs reach the static delay, when the maximum does.
BackoffOK == \A i \in Items : StaticDelay <= backoff[i]

\* A failed pass: the delay is at least the one before.
LEMMA FailDelays ==
  ASSUME TypeOK, DelaysOK, BackoffOK, NEW i \in Items, Fail(i)
  PROVE  /\ DelaysOK' /\ BackoffOK'
         /\ last'[i] = Delay(i) /\ (last[i] # None => last[i] <= Delay(i))
         /\ \A j \in Items \ {i} : last'[j] = last[j]
  <1>1. /\ last' = [last EXCEPT ![i] = Delay(i)]
        /\ age' = [age EXCEPT ![i] = AgeAfter(i)]
        /\ backoff' = [backoff EXCEPT ![i] = IF InWindow(i) THEN @ ELSE Doubled(@)]
    BY DEF Fail
  <1>2. /\ last[i] \in Delays /\ last \in [Items -> Delays]
        /\ backoff[i] \in 0..MaxBackoff /\ backoff \in [Items -> 0..MaxBackoff]
        /\ age[i] \in None..(StaticWindow + 1)
        /\ age \in [Items -> None..(StaticWindow + 1)]
    BY DEF TypeOK
  <1>3. last[i] # None => last[i] <= Delay(i)
    BY <1>2, ValidConfig DEF Validate, DelaysOK, Delay, InWindow, Delays
  <1>4. \A j \in Items \ {i} :
          last'[j] = last[j] /\ age'[j] = age[j] /\ backoff'[j] = backoff[j]
    BY <1>1, <1>2
  <1>5. /\ last'[i] = Delay(i) /\ age'[i] = AgeAfter(i)
        /\ backoff'[i] = IF InWindow(i) THEN backoff[i] ELSE Doubled(backoff[i])
    BY <1>1, <1>2
  <1>6. StaticDelay <= backoff'[i]
    BY <1>2, <1>5, DelayFacts, ValidConfig DEF Validate, BackoffOK
  <1>7. /\ age'[i] # None
        /\ age'[i] <= StaticWindow => Delay(i) = StaticDelay
        /\ StaticDelay <= Delay(i) /\ Delay(i) <= backoff'[i]
    BY <1>2, <1>5, DelayFacts, ValidConfig DEF Validate, BackoffOK, Delay, InWindow, None
  <1>8. DelaysOK'
    BY <1>4, <1>5, <1>7 DEF DelaysOK
  <1>9. BackoffOK'
    BY <1>4, <1>6 DEF BackoffOK
  <1>10. QED
    BY <1>3, <1>4, <1>5, <1>8, <1>9

\* The other steps: a delay is forgotten, or none changes.
LEMMA OtherDelays ==
  ASSUME TypeOK, DelaysOK, BackoffOK, StaticDelay <= MaxBackoff,
         \/ UNCHANGED vars \/ Tick
         \/ \E i \in Items : Forget(i) \/ Take(i) \/ Expire(i) \/ Event(i)
  PROVE  /\ DelaysOK' /\ BackoffOK'
         /\ \A j \in Items : last'[j] \in {last[j], None}
  <1>1. CASE UNCHANGED vars
    BY <1>1 DEF vars, DelaysOK, BackoffOK
  <1>2. ASSUME NEW i \in Items, Take(i) \/ Expire(i) \/ Event(i)
        PROVE  UNCHANGED <<age, backoff, last>>
    BY <1>2 DEF Take, Expire, Event
  <1>3. ASSUME NEW i \in Items, Forget(i)
        PROVE  /\ DelaysOK' /\ BackoffOK'
               /\ \A j \in Items : last'[j] \in {last[j], None}
    <2>1. StaticDelay <= FirstBackoff
      BY ValidConfig DEF Validate, FirstBackoff, Smaller
    <2>2. QED
      BY <1>3, <2>1 DEF Forget, TypeOK, DelaysOK, BackoffOK
  <1>4. CASE Tick
    <2>1. \A j \in Items : age[j] # None => age'[j] # None /\ age[j] <= age'[j]
      BY <1>4, ValidConfig DEF Validate, Tick, TypeOK, Older, Smaller, None
    <2>2. UNCHANGED <<backoff, last>> /\ \A j \in Items : age'[j] \in Int /\ age[j] \in Int
      BY <1>4, StartFacts DEF Tick, TypeOK, None
    <2>3. QED
      BY <2>1, <2>2, ValidConfig DEF Validate, DelaysOK, BackoffOK
  <1>5. QED
    BY <1>1, <1>2, <1>3, <1>4 DEF DelaysOK, BackoffOK

\* Delays do not shrink, whatever the items, the window and the initial backoff,
\* provided that the maximum reaches the static delay: validate does not check it.
THEOREM DelaysNeverShrink ==
  ASSUME StaticDelay <= MaxBackoff PROVE Spec => NeverShrinks
  <1>1. Init => DelaysOK /\ BackoffOK
    BY ValidConfig DEF Validate, Init, DelaysOK, BackoffOK, FirstBackoff, Smaller
  <1>2. TypeOK /\ DelaysOK /\ BackoffOK /\ [Next]_vars
          => (DelaysOK /\ BackoffOK)' /\ NotShorter
    <2> SUFFICES ASSUME TypeOK, DelaysOK, BackoffOK, [Next]_vars
                 PROVE  (DelaysOK /\ BackoffOK)' /\ NotShorter
      OBVIOUS
    <2>1. \A j \in Items : last[j] \in Int
      BY ValidConfig DEF Validate, TypeOK, Delays, None
    <2>2. ASSUME NEW i \in Items, Fail(i)
          PROVE  (DelaysOK /\ BackoffOK)' /\ NotShorter
      <3>1. Delay(i) \in Int
        BY DelayFacts, ValidConfig DEF Validate
      <3>2. QED
        BY <2>1, <2>2, <3>1, FailDelays DEF NotShorter
    <2>3. CASE \/ UNCHANGED vars \/ Tick
               \/ \E i \in Items : Forget(i) \/ Take(i) \/ Expire(i) \/ Event(i)
      BY <2>1, <2>3, OtherDelays DEF NotShorter
    <2>4. QED
      BY <2>2, <2>3 DEF Next, Succeed, Again
  <1>3. QED
    BY <1>1, <1>2, LimiterTypes, PTL DEF Spec, NeverShrinks
=============================================================================
