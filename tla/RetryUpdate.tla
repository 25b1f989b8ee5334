---------------------------- MODULE RetryUpdate ----------------------------
(***************************************************************************)
(* RetryUpdate and RetryStatusUpdate of controller/client/retry.go, run by  *)
(* several callers on one object: Get into the caller's object, adjust it   *)
(* in place, Update with the resource version that was read, and again on   *)
(* a conflict.  The object is a function from fields to numbers, 0 standing *)
(* for an absent field, and a caller's UpdateFunc increments one field: an  *)
(* adjustment that shows when it is applied twice.                          *)
(***************************************************************************)
EXTENDS Integers, FiniteSets

CONSTANTS
  Callers,    \* concurrent calls
  Fields,     \* the fields of the object
  StatusFields, \* those in the status, which RetryStatusUpdate writes
  Target,     \* Target[p]: the field that caller p's UpdateFunc increments
  Live,       \* callers whose client reads from the API server; others: a cache
  Steps,      \* defaultBackoff.Steps
  MaxEdits    \* bound on the writes of others

ASSUME RetryAssumption ==
  /\ StatusFields \subseteq Fields
  /\ Target \in [Callers -> Fields]
  /\ Live \subseteq Callers
  /\ Steps \in Nat \ {0} /\ MaxEdits \in Nat

VARIABLES
  server,     \* the object as the API server holds it
  cache,      \* the informer's copy of it
  pc,         \* pc[p]: where caller p is
  obj,        \* obj[p]: the fields of the object p passed in
  rv,         \* rv[p]: its resource version
  conflicts,  \* conflicts[p]: updates of p that met a conflict
  edits       \* writes of others so far

vars == <<server, cache, pc, obj, rv, conflicts, edits>>

Values == [Fields -> Nat]
Copies == [exists : BOOLEAN, ver : Nat, val : Values]

\* The fields a caller's update writes: the status, or all but the status.
Part(p) == IF Target[p] \in StatusFields THEN StatusFields
           ELSE Fields \ StatusFields

Blank == [f \in Fields |-> 0]

\* The objects passed in have a key and no fields yet: what an older object brings
\* along would be kept like what an earlier attempt left.
Init ==
  /\ server = [exists |-> TRUE, ver |-> 1, val |-> Blank]
  /\ cache = server
  /\ pc = [p \in Callers |-> "get"]
  /\ obj = [p \in Callers |-> Blank] /\ rv = [p \in Callers |-> 0]
  /\ conflicts = [p \in Callers |-> 0]
  /\ edits = 0

-----------------------------------------------------------------------------
\* A response of the API server is decoded into the object that is there: what
\* it does not mention stays.  The cache replaces the object.
Decoded(p, src) ==
  IF p \in Live
  THEN [f \in Fields |-> IF src.val[f] = 0 THEN obj[p][f] ELSE src.val[f]]
  ELSE src.val

Source(p) == IF p \in Live THEN server ELSE cache

Goto(p, where) == pc' = [pc EXCEPT ![p] = where]

\* A mutation of GetSucceeds: the resource version stays that of the first read.
GetKeepsVersion(p) ==
  /\ pc[p] = "get" /\ Source(p).exists
  /\ obj' = [obj EXCEPT ![p] = Decoded(p, Source(p))]
  /\ rv' = IF conflicts[p] = 0 THEN [rv EXCEPT ![p] = Source(p).ver] ELSE rv
  /\ Goto(p, "update")
  /\ UNCHANGED <<server, cache, conflicts, edits>>

GetSucceeds(p) ==
  /\ pc[p] = "get" /\ Source(p).exists
  /\ obj' = [obj EXCEPT ![p] = Decoded(p, Source(p))]
  /\ rv' = [rv EXCEPT ![p] = Source(p).ver]
  /\ Goto(p, "update")
  /\ UNCHANGED <<server, cache, conflicts, edits>>

\* NotFound, or any other error of Get or Update that is not a conflict, is
\* returned at once; nothing was stored.
Fails(p) ==
  /\ pc[p] \in {"get", "update"}
  /\ Goto(p, "error")
  /\ UNCHANGED <<server, cache, obj, rv, conflicts, edits>>

\* The object after adjust.
Adjust(p) == [obj[p] EXCEPT ![Target[p]] = @ + 1]

\* A write that the server accepts gives the object a new version.
Written(exists, val) == [exists |-> exists, ver |-> server.ver + 1, val |-> val]

\* The server takes the caller's part of the object over.
Stored(p) ==
  Written(TRUE, [f \in Fields |->
                   IF f \in Part(p) THEN Adjust(p)[f] ELSE server.val[f]])

\* A mutation of Outcomes: a lost response is retried like a conflict.
OutcomesRetried(p) == {"ok", "get"}

\* What a caller makes of a stored update: the response arrives, or an error
\* that is no conflict takes its place.
Outcomes(p) == {"ok", "error"}

UpdateAccepted(p) ==
  /\ pc[p] = "update" /\ server.exists /\ rv[p] = server.ver
  /\ server' = Stored(p)
  /\ obj' = [obj EXCEPT ![p] = Adjust(p)]
  /\ \E where \in Outcomes(p) : Goto(p, where)
  /\ UNCHANGED <<cache, rv, conflicts, edits>>

\* A mutation of AfterConflict: it is retried without counting.
AfterConflictAgain(p) == "get"

\* RetryOnConflict: the operation is tried Steps times.
AfterConflict(p) == IF conflicts[p] + 1 < Steps THEN "get" ELSE "error"

\* The object stays adjusted when the update is refused.
UpdateConflicts(p) ==
  /\ pc[p] = "update" /\ server.exists /\ rv[p] # server.ver
  /\ obj' = [obj EXCEPT ![p] = Adjust(p)]
  /\ Goto(p, AfterConflict(p))
  /\ conflicts' = [conflicts EXCEPT ![p] = IF @ < Steps THEN @ + 1 ELSE @]
  /\ UNCHANGED <<server, cache, rv, edits>>

-----------------------------------------------------------------------------
\* The watch brings the cache up to date.
Sync ==
  /\ cache # server
  /\ cache' = server
  /\ UNCHANGED <<server, pc, obj, rv, conflicts, edits>>

\* Somebody else sets or removes a field, or deletes the object.
Foreign ==
  /\ server.exists /\ edits < MaxEdits /\ edits' = edits + 1
  /\ \/ \E f \in Fields, v \in {0, 1} :
          server' = Written(TRUE, [server.val EXCEPT ![f] = v])
     \/ server' = Written(FALSE, server.val)
  /\ UNCHANGED <<cache, pc, obj, rv, conflicts>>

Step(p) == GetSucceeds(p) \/ Fails(p) \/ UpdateAccepted(p) \/ UpdateConflicts(p)

Next == Sync \/ Foreign \/ \E p \in Callers : Step(p)

Spec == Init /\ [][Next]_vars

\* A caller's goroutine goes on until its call returns.
FairSpec == Spec /\ \A p \in Callers : WF_vars(Step(p))

-----------------------------------------------------------------------------
\* Every variable has its type, and no caller retries more often than allowed.
TypeOK ==
  /\ server \in Copies /\ cache \in Copies
  /\ pc \in [Callers -> {"get", "update", "ok", "error"}]
  /\ obj \in [Callers -> Values] /\ rv \in [Callers -> Nat]
  /\ conflicts \in [Callers -> 0..Steps]
  /\ \A p \in Callers : pc[p] \in {"get", "update"} => conflicts[p] < Steps
  /\ edits \in 0..MaxEdits

\* What became of each call, as its caller sees it.
Op == [p \in Callers |->
  CASE pc[p] = "ok"                                       -> "done"
    [] pc[p] = "error"                                    -> "failed"
    [] pc[p] \in {"get", "update"} /\ conflicts[p] = 0    -> "pending"
    [] pc[p] \in {"get", "update"} /\ conflicts[p] # 0    -> "again"]

Atomic == INSTANCE AtomicUpdate WITH
  exists <- server.exists, value <- server.val, op <- Op, others <- edits,
  Exact <- Callers \ Live

\* The calls implement AtomicUpdate: whatever the cache shows, whichever
\* responses are lost and whoever writes in between, a call stores at most one
\* update, overwrites nothing another stored, and success means stored.  The
\* update applies the adjustment exactly once if the caller reads through a
\* cache, if it met no conflict, and if its field is present on the server; a
\* live caller that re-reads an object without the field into the one it had
\* adjusted (retry.go:18) may store the adjustment twice and more.
ImplementsAtomic == Atomic!Spec

\* A caller that reads from the API server meets a conflict only where somebody
\* else wrote between its Get and its Update: it never gives up without rivals.
ConflictsHaveRivals ==
  \A p \in Live : conflicts[p] <= server.ver - 1

\* Every call returns.
Returns == <>(\A p \in Callers : pc[p] \in {"ok", "error"})
=============================================================================
