-------------------------- MODULE ResourceContract --------------------------
(***************************************************************************)
(* What Reconcile of controller/lifecycle promises its subroutines about    *)
(* one object: what a subroutine may have made outside of the cluster is    *)
(* cleaned up before the object goes.  Each subroutine here has finalizers  *)
(* of its own; they are put on a live object, all at once, and come off an  *)
(* object in deletion when nothing is left to clean up.                     *)
(***************************************************************************)
CONSTANTS
  Owners,   \* the subroutines that have finalizers of their own
  Lagging   \* TRUE: the object is read from a cache that may lag

VARIABLES
  phase,    \* "live", "deleting" or "gone"
  held,     \* the subroutines whose finalizers are on the object
  made,     \* the subroutines that may have left something outside
  excused   \* a deletion was first told by the server's answer to a patch

vars == <<phase, held, made, excused>>

Init == phase = "live" /\ held = {} /\ made = {} /\ excused = FALSE

\* The object gets the finalizers of all subroutines.
Hold == /\ phase = "live"
        /\ held' = Owners
        /\ UNCHANGED <<phase, made, excused>>

\* A subroutine is run, which may leave something behind, under its finalizers.
Make(s) == /\ s \in held \/ excused
           /\ made' = made \cup {s}
           /\ UNCHANGED <<phase, held, excused>>

\* A subroutine is finalized, which happens to no live object.
Clean(s) == /\ phase # "live"
            /\ made' = made \ {s}
            /\ UNCHANGED <<phase, held, excused>>

\* The object goes when nothing holds it any more.
MayGo(next) == next \in {"deleting", "gone"} /\ (next = "gone" => held' = {})

Delete == /\ phase = "live" /\ MayGo(phase')
          /\ UNCHANGED <<held, made, excused>>

\* Finalizers come off, of subroutines that have nothing left outside.
Release == /\ phase = "deleting" /\ MayGo(phase')
           /\ held' \in SUBSET held
           /\ excused \/ (held \ held') \cap made = {}
           /\ UNCHANGED <<made, excused>>

\* With a lagging cache, a pass that read a live object may learn of the
\* deletion in its middle; it finalizes, and later ones may make things again.
Excuse == /\ Lagging /\ phase = "deleting" /\ held = Owners
          /\ excused' = TRUE
          /\ UNCHANGED <<phase, held, made>>

Next == \/ Hold \/ Delete \/ Release \/ Excuse
        \/ \E s \in Owners : Make(s) \/ Clean(s)

Spec == Init /\ [][Next]_vars
=============================================================================
