---------------------------- MODULE AtomicUpdate ----------------------------
(***************************************************************************)
(* What RetryUpdate and RetryStatusUpdate of controller/client/retry.go     *)
(* promise their callers: a call takes effect in one step at most, on the   *)
(* object as it is at that moment, and one that returns no error has taken  *)
(* effect.  In that step the adjustment is applied exactly once, save for   *)
(* one case: a caller that reads from the API server and tries again after  *)
(* a conflict gets what is absent on the server from its own earlier, and   *)
(* already adjusted, object (retry.go:18).                                  *)
(***************************************************************************)
EXTENDS Integers

CONSTANTS
  Callers,    \* concurrent calls, one adjustment each
  Fields,     \* the fields of the object
  Target,     \* Target[p]: the field that caller p's UpdateFunc increments
  Exact       \* the callers whose reads replace the object they pass in

VARIABLES
  exists,     \* the object exists
  value,      \* its fields; 0 is an absent field
  op,         \* op[p]: what became of the call of p; "again": it met a conflict
  others      \* how often somebody else wrote

vars == <<exists, value, op, others>>

Values == [Fields -> Nat]

Init == /\ exists = TRUE
        /\ value \in Values
        /\ op = [p \in Callers |-> "pending"]
        /\ others = 0

\* Exactly one increment of the target, and nothing else.
Once(p, v) == v = [value EXCEPT ![Target[p]] = @ + 1]

\* The fields that are present come out as if adjusted once.  Those that are
\* absent come from the caller's former object: any of them may be brought back,
\* and the target may have been incremented before, as often as the caller tried.
Leftover(p, v) ==
  /\ v \in Values
  /\ \A f \in Fields :
       value[f] # 0 => v[f] = IF f = Target[p] THEN value[f] + 1 ELSE value[f]

\* What the stored object is.
Adjusted(p, v) == IF p \in Exact \/ op[p] = "pending" THEN Once(p, v)
                  ELSE Leftover(p, v)

Under(p) == op[p] \in {"pending", "again"}

\* The adjustment is stored; the caller learns of it, or its response is lost.
Apply(p) == /\ Under(p) /\ exists
            /\ Adjusted(p, value')
            /\ \E result \in {"done", "failed"} : op' = [op EXCEPT ![p] = result]
            /\ UNCHANGED <<exists, others>>

\* The caller gets an error and nothing was stored for it.
Refuse(p) == /\ Under(p)
             /\ op' = [op EXCEPT ![p] = "failed"]
             /\ UNCHANGED <<exists, value, others>>

\* A caller is in conflict only if somebody may have written since it began.
Retry(p) == /\ op[p] = "pending"
            /\ others > 0 \/ \E q \in Callers \ {p} : op[q] \in {"done", "failed"}
            /\ op' = [op EXCEPT ![p] = "again"]
            /\ UNCHANGED <<exists, value, others>>

\* Somebody else writes or deletes the object.
Foreign == /\ exists
           /\ exists' \in BOOLEAN /\ value' \in Values
           /\ others' = others + 1
           /\ UNCHANGED op

Next == Foreign \/ \E p \in Callers : Apply(p) \/ Refuse(p) \/ Retry(p)

Spec == Init /\ [][Next]_vars
=============================================================================
