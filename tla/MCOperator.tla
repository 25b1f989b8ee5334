---------------------------- MODULE MCOperator ----------------------------
(* Constant values for the run of Operator.                                  *)
EXTENDS Operator

\* A manager that is accepted though it asks for an initializer it will not get,
\* and two that are refused: for an interface that is not there, and for a part
\* that writes the status in read-only mode.
SomeCases == {
  [options |-> {"limiter", "conditions", "initializer"}, cluster |-> "one",
   shows |-> {"conditions"}],
  [options |-> {"limiter", "conditions", "spread"}, cluster |-> "many",
   shows |-> {"conditions"}],
  [options |-> {"limiter", "readOnly", "spread"}, cluster |-> "one",
   shows |-> {"conditions", "spread"}]}
=============================================================================
