---------------------------- MODULE MCLifecycle ----------------------------
(* Constant values for the runs of Lifecycle.                               *)
EXTENDS Lifecycle

\* Finalizers of one, of two and of three subroutines.
NoFin1 == <<{}>>
NoFin2 == <<{}, {}>>
OwnFin1 == <<{"f1"}>>
OwnFin2 == <<{"f1"}, {"f2"}>>
OwnFin3 == <<{"f1"}, {"f2"}, {}>>
FirstOnly == <<{"f1"}, {}>>

\* How the subroutines may end: in every way; in every way that is retried; the
\* last one always with an error that is not to be retried.
AllEnds == [s \in Subs |-> AllOutcomes]
Recovering == [s \in Subs |-> AllOutcomes \ {"final"}]
LastGivesUp == [s \in Subs |-> IF s = N THEN {"final"} ELSE AllOutcomes \ {"final"}]
=============================================================================
