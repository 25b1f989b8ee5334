------------------------------ MODULE Shutdown ------------------------------
(***************************************************************************)
(* The context of a process, from StartContext to its end: a signal, the    *)
(* caller or the parent closes Done, the goroutines that watch it stop, and *)
(* the deferred shutdown function calls stop and waits.  Its call of        *)
(* Recover recovers nothing, as recover is not called by the deferred       *)
(* function itself: after a panic the function runs all the same, and the   *)
(* process ends with the panic.                                             *)
(***************************************************************************)
EXTENDS Integers

CONSTANTS
  Timeout,  \* the timeout of StartContext
  WorkTime  \* within which all that watches Done has stopped

ASSUME ShutdownAssumption == Timeout \in Nat /\ WorkTime \in Nat /\ WorkTime < Timeout

VARIABLES
  cause,     \* why Done is closed, or Open
  listener,  \* where the goroutine of NotifyShutdownContext is
  ch,        \* its channel, of capacity one, holds a signal
  notified,  \* signal.Notify is in force
  main,      \* where the main goroutine is
  wait,      \* what is left of time.After(timeout)
  work,      \* time left to stop, or Stopped
  told,      \* a signal was delivered to the channel (history)
  killed     \* a signal ended the process at once (history)

signalVars == <<listener, ch, notified>>
shutdownVars == <<cause, signalVars, main, wait, work, told, killed>>

Open == "open"
Stopped == -1
Alive == main # "over"

\* The parent may be done before it is used: then no goroutine is started.
InitShutdown ==
  /\ cause \in {Open, "parent"}
  /\ listener = IF cause = Open THEN "starting" ELSE "gone"
  /\ ch = FALSE /\ notified = TRUE
  /\ main = "running"
  /\ wait = Timeout /\ work = WorkTime
  /\ told = FALSE /\ killed = FALSE

\* cancel: the first cause stays.
Cancel(why) == cause' = IF cause = Open THEN why ELSE cause

-----------------------------------------------------------------------------
\* A mutation of Accepts: the channel has no buffer.
AcceptsIfSelecting == listener = "selecting"

\* The channel takes the signal, or holds one already.
Accepts == TRUE

\* A signal: it is put into the channel and dropped if the channel is full.
\* Without Notify, it ends the process.
Signal ==
  /\ Alive
  /\ IF notified
     THEN /\ ch' = (ch \/ Accepts)
          /\ told' = TRUE
          /\ UNCHANGED <<main, killed>>
     ELSE /\ main' = "over" /\ killed' = TRUE
          /\ UNCHANGED <<ch, told>>
  /\ UNCHANGED <<cause, listener, notified, wait, work>>

\* The goroutine selects between the channel and Done.
Listen ==
  /\ Alive
  /\ \/ /\ listener = "starting" /\ listener' = "selecting" /\ UNCHANGED <<ch, cause>>
     \/ /\ listener = "selecting" /\ ch
        /\ listener' = "told" /\ ch' = FALSE /\ UNCHANGED cause
     \/ /\ listener = "selecting" /\ cause # Open
        /\ listener' = "gone" /\ UNCHANGED <<ch, cause>>
     \/ /\ listener = "told"
        /\ listener' = "gone" /\ Cancel("shutdown") /\ UNCHANGED ch
  /\ UNCHANGED <<notified, main, wait, work, told, killed>>

\* The caller's cancel function, or the end of the parent.
CancelOutside ==
  /\ Alive /\ cause = Open /\ Cancel("caller")
  /\ UNCHANGED <<signalVars, main, wait, work, told, killed>>

\* The main goroutine returns, as Done is closed, after an error or panicking:
\* the deferred function starts.
MainReturns ==
  /\ main = "running" /\ main' = "closing"
  /\ UNCHANGED <<cause, signalVars, wait, work, told, killed>>

\* A mutation of StopCancels: stop only stops the notification.
StopOnlyNotification ==
  /\ main = "closing" /\ main' = "canceled"
  /\ UNCHANGED <<cause, signalVars, wait, work, told, killed>>

\* stop cancels the context, and then the notification.
StopCancels ==
  /\ main = "closing" /\ main' = "canceled"
  /\ Cancel("stop")
  /\ UNCHANGED <<signalVars, wait, work, told, killed>>

StopNotification ==
  /\ main = "canceled" /\ main' = "waiting"
  /\ notified' = FALSE
  /\ UNCHANGED <<cause, listener, ch, wait, work, told, killed>>

\* The wait is over.
Exit ==
  /\ main = "waiting" /\ wait = 0
  /\ main' = "over"
  /\ UNCHANGED <<cause, signalVars, wait, work, told, killed>>

\* All that watched Done has stopped.
WorkStops ==
  /\ Alive /\ cause # Open /\ work # Stopped
  /\ work' = Stopped
  /\ UNCHANGED <<cause, signalVars, main, wait, told, killed>>

\* Time passes, for those who wait and those who have to stop in time.
ShutdownTick ==
  /\ Alive /\ (cause # Open => work # 0)
  /\ wait' = IF main = "waiting" /\ wait > 0 THEN wait - 1 ELSE wait
  /\ work' = IF cause # Open /\ work > 0 THEN work - 1 ELSE work
  /\ UNCHANGED <<cause, signalVars, main, told, killed>>

ShutdownTypeOK ==
  /\ cause \in {Open, "parent", "shutdown", "caller", "stop"}
  /\ listener \in {"starting", "selecting", "told", "gone"}
  /\ ch \in BOOLEAN /\ notified \in BOOLEAN /\ told \in BOOLEAN /\ killed \in BOOLEAN
  /\ main \in {"running", "closing", "canceled", "waiting", "over"}
  /\ wait \in 0..Timeout /\ work \in Stopped..WorkTime
=============================================================================
