--------------------------- MODULE MCRetryUpdate ---------------------------
(* Constant values for the run of RetryUpdate: two callers rival for a spec  *)
(* field, one through a cache, and a third one writes the status.            *)
EXTENDS RetryUpdate

SpecAndStatus == [p \in Callers |-> IF p = "c" THEN "status" ELSE "spec"]
=============================================================================
